---------------------------- MODULE Spec2Model ----------------------------
(***************************************************************************)
(* Layout engine of the card game: the card and deck model, the Layout     *)
(* with its five move operators, inverse_action, the solved-layout         *)
(* constructor and the scrambler.                                          *)
(*                                                                         *)
(* Python lists are modelled as TLA+ sequences (1-based); every index that *)
(* the program uses is kept 0-based, as in the source, and converted where *)
(* a sequence is indexed.  A card code is the sequence of its characters.  *)
(***************************************************************************)
EXTENDS Integers, Sequences, FiniteSets, Bags, TLC

VARIABLES
    layout,            \* the Layout being mutated
    before,            \* the Layout as it was before the most recent action
    last,              \* the most recent Action applied to layout
    origin,            \* the Layout the run started from
    nsteps,            \* number of actions applied so far
    pc,                \* position of the run
    players,           \* build_solved_layout / scramble_from_solved: players
    max_attempts,      \* build_solved_layout: the attempt budget
    attempts,          \* build_solved_layout: attempts started so far
    built,             \* build_solved_layout: the attempt's locals before line 195
    meta,              \* build_solved_layout: the metadata returned
    solved,            \* scramble_from_solved: the solved Layout passed in
    steps,             \* scramble_from_solved: the step count passed in
    actions_taken,     \* scramble_from_solved: the actions applied so far
    solution_actions,  \* scramble_from_solved: the solution returned
    cur,               \* the copy of the scrambled Layout the solution is replayed on
    replayed,          \* number of solution actions replayed on cur
    tape,              \* the random draws consumed by the first of two runs, in order
    first,             \* the outputs of the first of two runs
    hashseed,          \* the interpreter's string hash seed of the current run
    heap,              \* the list objects in memory: address -> contents
    solved_obj,        \* the Layout object passed to scramble_from_solved
    scrambled_obj,     \* the Layout object scramble_from_solved works on and returns
    diff_cfg,          \* select_ranked_level: the RankedDifficultyConfig
    ranked_rows,       \* select_ranked_level: recent_ranked_results
    elo_value,         \* select_ranked_level: user_elo
    level_choice,      \* select_ranked_level: the value returned
    elo_cfg,           \* compute_user_elo: the EloConfig
    rating,            \* compute_user_elo: the rating after the games folded so far
    folded,            \* compute_user_elo: number of games folded so far
    other_rows,        \* a second result history, for comparing two selections
    other_choice,      \* the level selected for the second history
    stored,            \* a stored puzzle: start layout, actions, opponent_row_index
    served,            \* what _normalize_layout_and_actions returned for it
    invites,           \* table invites: the row with id k at place k
    game_sessions,     \* tables game_sessions and game_session_members
    game_results,      \* table game_results
    lobby_ready,       \* table lobby_ready: the rows with ready = 1
    clock,             \* the current time, datetime.utcnow()
    response,          \* the response to the most recent request
    requests,          \* number of requests handled so far
    threads            \* the requests being handled concurrently

vars == <<layout, before, last, origin, nsteps, pc,
          players, max_attempts, attempts, built, meta,
          solved, steps, actions_taken, solution_actions, cur, replayed,
          tape, first, hashseed, heap, solved_obj, scrambled_obj,
          diff_cfg, ranked_rows, elo_value, level_choice,
          elo_cfg, rating, folded, other_rows, other_choice, stored, served,
          invites, game_sessions, game_results, lobby_ready, clock, response, requests, threads>>

actionVars == <<before, last, origin, nsteps>>

buildVars == <<max_attempts, attempts, built, meta>>

scrambleVars == <<solved, steps, actions_taken, solution_actions, cur, replayed>>

twinVars == <<tape, first, hashseed>>

heapVars == <<heap, solved_obj, scrambled_obj>>

eloVars == <<diff_cfg, ranked_rows, elo_value, level_choice>>

ratingVars == <<elo_cfg, rating, folded>>

pairVars == <<other_rows, other_choice>>

serveVars == <<stored, served>>

appVars == <<invites, game_sessions, game_results, lobby_ready, clock, response, requests,
             threads>>

(***************************************************************************)
(* Bounds of the model.                                                    *)
(***************************************************************************)
MaxActions == 2
RowCounts == {2, 3}
MaxAttempts == 2
MaxPlayers == 5
MaxDeckRot == 5
DeckStrides == {1, 3}
MaxSteps == 2
ScramblePlayers == {1, 2}
ColumnDraws == {<<0, 0>>, <<0, 1>>, <<3, 1>>, <<2, 4>>}

(***************************************************************************)
(* models.py: cards, deck, codes.                                          *)
(***************************************************************************)
SUITS == <<"S", "H", "D", "C">>

RANKS == [k \in 1..13 |-> k + 1]

num_cols == 5

Cols == 0..(num_cols - 1)

DigitChars == <<"0", "1", "2", "3", "4", "5", "6", "7", "8", "9">>

\* str(n) for 0 <= n < 100, as the sequence of its characters
IntToChars(n) ==
    IF n >= 10 THEN <<DigitChars[(n \div 10) + 1], DigitChars[(n % 10) + 1]>>
    ELSE <<DigitChars[n + 1]>>

DigitValue(ch) == (CHOOSE d \in 1..10 : DigitChars[d] = ch) - 1

\* int(s) for a sequence of digit characters
RECURSIVE CharsToInt(_)
CharsToInt(s) ==
    IF Len(s) = 0 THEN 0
    ELSE 10 * CharsToInt(SubSeq(s, 1, Len(s) - 1)) + DigitValue(s[Len(s)])

\* Card.code
code(c) == IntToChars(c.rank) \o <<c.suit>>

\* Card.from_code
from_code(cd) ==
    [rank |-> CharsToInt(SubSeq(cd, 1, Len(cd) - 1)), suit |-> cd[Len(cd)]]

standard_deck ==
    [k \in 1..52 |-> [rank |-> RANKS[((k - 1) % 13) + 1],
                      suit |-> SUITS[((k - 1) \div 13) + 1]]]

cards_to_codes(cards) == [k \in 1..Len(cards) |-> code(cards[k])]

(***************************************************************************)
(* Python list indexing: an index k into a list of length n addresses      *)
(* element k when 0 <= k < n and element n + k when -n <= k < 0.           *)
(***************************************************************************)
InRange(n, k) == k >= -n /\ k < n

PyIdx(n, k) == IF k < 0 THEN n + k + 1 ELSE k + 1

(***************************************************************************)
(* models.py: Layout and its move operators.                               *)
(***************************************************************************)
num_rows(L) == Len(L.rows)

clone(L) ==
    [rows |-> [r \in 1..Len(L.rows) |-> L.rows[r]],
     row_reserves |-> [r \in 1..Len(L.row_reserves) |-> L.row_reserves[r]],
     col_reserves |-> [c \in 1..Len(L.col_reserves) |-> L.col_reserves[c]],
     opponent_row_index |-> L.opponent_row_index]

to_dict(L) ==
    [rows |-> L.rows, row_reserves |-> L.row_reserves, col_reserves |-> L.col_reserves,
     opponent_row_index |-> L.opponent_row_index]

\* rows[r][i], rows[r][j] = rows[r][j], rows[r][i]
SwapCells(L, r, i, j) ==
    LET rr == PyIdx(num_rows(L), r)
        ii == PyIdx(num_cols, i)
        jj == PyIdx(num_cols, j)
        row == L.rows[rr]
    IN [L EXCEPT !.rows[rr] = [row EXCEPT ![ii] = row[jj], ![jj] = row[ii]]]

\* a swap that exchanges the two cells of row_index only
swap_row_only(L, row_index, i, j) == SwapCells(L, row_index, i, j)

swap_with_opponent(L, row_index, i, j) ==
    LET L1 == SwapCells(L, row_index, i, j)
    IN SwapCells(L1, L1.opponent_row_index, i, j)

\* for k in range(num_cols - 1, 0, -1): row[k] = row[k - 1]
RECURSIVE RowRightLoop(_, _)
RowRightLoop(row, k) ==
    IF k <= 0 THEN row
    ELSE RowRightLoop([row EXCEPT ![k + 1] = row[k]], k - 1)

\* a right shift whose reserve keeps top and drops the evicted card
shift_row_right_drops_evicted(L, row_index) ==
    LET rr == PyIdx(num_rows(L), row_index)
        top == L.row_reserves[rr][1]
        bottom == L.row_reserves[rr][2]
        shifted == RowRightLoop(L.rows[rr], num_cols - 1)
    IN [L EXCEPT !.rows[rr] = [shifted EXCEPT ![1] = top],
                 !.row_reserves[rr] = <<bottom, top>>]

shift_row_right(L, row_index) ==
    LET rr == PyIdx(num_rows(L), row_index)
        top == L.row_reserves[rr][1]
        bottom == L.row_reserves[rr][2]
        rightmost == L.rows[rr][PyIdx(num_cols, -1)]
        shifted == RowRightLoop(L.rows[rr], num_cols - 1)
    IN [L EXCEPT !.rows[rr] = [shifted EXCEPT ![1] = top],
                 !.row_reserves[rr] = <<bottom, rightmost>>]

\* for k in range(0, num_cols - 1): row[k] = row[k + 1]
RECURSIVE RowLeftLoop(_, _)
RowLeftLoop(row, k) ==
    IF k >= num_cols - 1 THEN row
    ELSE RowLeftLoop([row EXCEPT ![k + 1] = row[k + 2]], k + 1)

\* a left shift that writes the reserve in the order [old_top, leftmost]
shift_row_left_reserve_reversed(L, row_index) ==
    LET rr == PyIdx(num_rows(L), row_index)
        top == L.row_reserves[rr][1]
        bottom == L.row_reserves[rr][2]
        leftmost == L.rows[rr][1]
        shifted == RowLeftLoop(L.rows[rr], 0)
    IN [L EXCEPT !.rows[rr] = [shifted EXCEPT ![PyIdx(num_cols, -1)] = bottom],
                 !.row_reserves[rr] = <<top, leftmost>>]

shift_row_left(L, row_index) ==
    LET rr == PyIdx(num_rows(L), row_index)
        top == L.row_reserves[rr][1]
        bottom == L.row_reserves[rr][2]
        leftmost == L.rows[rr][1]
        shifted == RowLeftLoop(L.rows[rr], 0)
    IN [L EXCEPT !.rows[rr] = [shifted EXCEPT ![PyIdx(num_cols, -1)] = bottom],
                 !.row_reserves[rr] = <<leftmost, top>>]

\* for r in range(num_rows - 1, 0, -1): rows[r][col_index] = rows[r - 1][col_index]
RECURSIVE ColDownLoop(_, _, _)
ColDownLoop(rows, cc, r) ==
    IF r <= 0 THEN rows
    ELSE ColDownLoop([rows EXCEPT ![r + 1][cc] = rows[r][cc]], cc, r - 1)

\* a downward shift that runs over the player rows only and skips the opponent row
shift_col_down_players_only(L, col_index) ==
    LET cc == PyIdx(num_cols, col_index)
        top == L.col_reserves[cc][1]
        bottom == L.col_reserves[cc][2]
        ps == SelectSeq([k \in 1..num_rows(L) |-> k], LAMBDA r : r /= L.opponent_row_index + 1)
        at(r) == CHOOSE m \in 1..Len(ps) : ps[m] = r
    IN [L EXCEPT
          !.rows = [r \in 1..num_rows(L) |->
                      IF r = L.opponent_row_index + 1 THEN L.rows[r]
                      ELSE [L.rows[r] EXCEPT ![cc] =
                              IF at(r) = 1 THEN top ELSE L.rows[ps[at(r) - 1]][cc]]],
          !.col_reserves[cc] = <<bottom, L.rows[ps[Len(ps)]][cc]>>]

\* a down shift that appends the evicted card to the reserve it leaves whole
shift_col_down_reserve_extended(L, col_index) ==
    LET cc == PyIdx(num_cols, col_index)
        top == L.col_reserves[cc][1]
        bottom == L.col_reserves[cc][2]
        bottommost == L.rows[PyIdx(num_rows(L), -1)][cc]
        shifted == ColDownLoop(L.rows, cc, num_rows(L) - 1)
    IN [L EXCEPT !.rows = [shifted EXCEPT ![1][cc] = top],
                 !.col_reserves[cc] = <<top, bottom, bottommost>>]

shift_col_down(L, col_index) ==
    LET cc == PyIdx(num_cols, col_index)
        top == L.col_reserves[cc][1]
        bottom == L.col_reserves[cc][2]
        bottommost == L.rows[PyIdx(num_rows(L), -1)][cc]
        shifted == ColDownLoop(L.rows, cc, num_rows(L) - 1)
    IN [L EXCEPT !.rows = [shifted EXCEPT ![1][cc] = top],
                 !.col_reserves[cc] = <<bottom, bottommost>>]

\* for r in range(0, num_rows - 1): rows[r][col_index] = rows[r + 1][col_index]
RECURSIVE ColUpLoop(_, _, _)
ColUpLoop(rows, cc, r) ==
    IF r >= Len(rows) - 1 THEN rows
    ELSE ColUpLoop([rows EXCEPT ![r + 1][cc] = rows[r + 2][cc]], cc, r + 1)

\* an upward shift whose loop starts one row late
shift_col_up_from_row_1(L, col_index) ==
    LET cc == PyIdx(num_cols, col_index)
        top == L.col_reserves[cc][1]
        bottom == L.col_reserves[cc][2]
        topmost == L.rows[1][cc]
        shifted == ColUpLoop(L.rows, cc, 1)
    IN [L EXCEPT !.rows = [shifted EXCEPT ![PyIdx(num_rows(L), -1)][cc] = bottom],
                 !.col_reserves[cc] = <<topmost, top>>]

shift_col_up(L, col_index) ==
    LET cc == PyIdx(num_cols, col_index)
        top == L.col_reserves[cc][1]
        bottom == L.col_reserves[cc][2]
        topmost == L.rows[1][cc]
        shifted == ColUpLoop(L.rows, cc, 0)
    IN [L EXCEPT !.rows = [shifted EXCEPT ![PyIdx(num_rows(L), -1)][cc] = bottom],
                 !.col_reserves[cc] = <<topmost, top>>]

(***************************************************************************)
(* actions.py: Action and inverse_action; generator.py: apply_action.      *)
(***************************************************************************)
ActionTypes == {"swap", "row_right", "row_left", "col_down", "col_up"}

Action(t, p) == [type |-> t, params |-> p]

SwapAction(r, i, j) == Action("swap", [row_index |-> r, i |-> i, j |-> j])

RowAction(t, r) == Action(t, [row_index |-> r])

ColAction(t, c) == Action(t, [col_index |-> c])

\* an inverse that returns the action itself
inverse_action_unchanged(a) == Action(a.type, a.params)

\* an inverse that exchanges the two columns of a swap in its parameters
inverse_action_columns_exchanged(a) ==
    CASE a.type = "row_right" -> Action("row_left", a.params)
      [] a.type = "row_left" -> Action("row_right", a.params)
      [] a.type = "col_down" -> Action("col_up", a.params)
      [] a.type = "col_up" -> Action("col_down", a.params)
      [] a.type = "swap" ->
           Action("swap", [row_index |-> a.params.row_index, i |-> a.params.j,
                           j |-> a.params.i])

\* lines 20-32; the ValueError of line 33 is for types outside ActionTypes
inverse_action(a) ==
    CASE a.type = "row_right" -> Action("row_left", a.params)
      [] a.type = "row_left" -> Action("row_right", a.params)
      [] a.type = "col_down" -> Action("col_up", a.params)
      [] a.type = "col_up" -> Action("col_down", a.params)
      [] a.type = "swap" -> Action("swap", a.params)

apply_action(L, a) ==
    CASE a.type = "swap" ->
           swap_with_opponent(L, a.params.row_index, a.params.i, a.params.j)
      [] a.type = "row_right" -> shift_row_right(L, a.params.row_index)
      [] a.type = "row_left" -> shift_row_left(L, a.params.row_index)
      [] a.type = "col_down" -> shift_col_down(L, a.params.col_index)
      [] a.type = "col_up" -> shift_col_up(L, a.params.col_index)

(***************************************************************************)
(* The move operators on arbitrary integer indices.  A list index outside  *)
(* -n..n-1 raises IndexError at the statement that uses it; the result is   *)
(* the Layout as that statement found it, and raised tells whether the     *)
(* call ended in the exception.                                            *)
(***************************************************************************)
index_error(n, k) == ~InRange(n, k)

Outcome(L, raised) == [layout |-> L, raised |-> raised]

\* lines 76-79, then lines 80-81
swap_with_opponent_or_raise(L, row_index, i, j) ==
    IF index_error(num_rows(L), row_index) \/ index_error(num_cols, j)
       \/ index_error(num_cols, i)
      THEN Outcome(L, TRUE)
    ELSE IF index_error(num_rows(L), L.opponent_row_index)
      THEN Outcome(SwapCells(L, row_index, i, j), TRUE)
    ELSE Outcome(swap_with_opponent(L, row_index, i, j), FALSE)

\* lines 85-86 (and 94-95) raise before the first cell is written
shift_row_or_raise(L, t, row_index) ==
    IF index_error(Len(L.row_reserves), row_index) \/ index_error(num_rows(L), row_index)
      THEN Outcome(L, TRUE)
    ELSE IF t = "row_right" THEN Outcome(shift_row_right(L, row_index), FALSE)
    ELSE Outcome(shift_row_left(L, row_index), FALSE)

\* lines 103-104 (and 111-112) raise before the first cell is written
shift_col_or_raise(L, t, col_index) ==
    IF index_error(Len(L.col_reserves), col_index) \/ index_error(num_cols, col_index)
      THEN Outcome(L, TRUE)
    ELSE IF t = "col_down" THEN Outcome(shift_col_down(L, col_index), FALSE)
    ELSE Outcome(shift_col_up(L, col_index), FALSE)

\* apply_action for an action of the five kinds with any integer indices
apply_action_or_raise(L, a) ==
    CASE a.type = "swap" ->
           swap_with_opponent_or_raise(L, a.params.row_index, a.params.i, a.params.j)
      [] a.type \in {"row_right", "row_left"} ->
           shift_row_or_raise(L, a.type, a.params.row_index)
      [] a.type \in {"col_down", "col_up"} ->
           shift_col_or_raise(L, a.type, a.params.col_index)


(***************************************************************************)
(* Optional values: None is the empty sequence, a value v is <<v>>.        *)
(***************************************************************************)
None == <<>>

Some(v) == <<v>>

NoSuit == "None"

(***************************************************************************)
(* The random source.  randrange(n) and choice(xs) are a drawn number      *)
(* reduced to the range; shuffle(xs) is a drawn permutation, taken from    *)
(* the family k -> (stride * k + rot) mod n with stride coprime to n.      *)
(***************************************************************************)
randrange(n, draw) == draw % n

choice(xs, draw) == xs[(draw % Len(xs)) + 1]

Shuffle(xs, d) ==
    LET n == Len(xs)
    IN [k \in 1..n |-> xs[((((d.stride % n) * (k - 1)) + d.rot) % n) + 1]]

Identity == [stride |-> 1, rot |-> 0]

Reflect == [stride |-> -1, rot |-> 1]

ListDraws == {Identity, Reflect}

RngStreams ==
    [suit_choice : {0, 1}, suit_shuffle : ListDraws, cand_shuffle : ListDraws,
     pool_shuffle : ListDraws, reserve_shuffle : ListDraws]

DeckDraws == [stride : DeckStrides, rot : 0..MaxDeckRot]

(***************************************************************************)
(* Python list helpers.                                                    *)
(***************************************************************************)
InSeq(x, s) == \E k \in 1..Len(s) : s[k] = x

SeqSet(s) == {s[k] : k \in 1..Len(s)}

Reverse(s) == [k \in 1..Len(s) |-> s[Len(s) + 1 - k]]

\* xs.remove(x): the list without the first occurrence of x
RemoveFirst(s, x) ==
    LET k == CHOOSE i \in 1..Len(s) : s[i] = x /\ \A j \in 1..(i - 1) : s[j] /= x
    IN SubSeq(s, 1, k - 1) \o SubSeq(s, k + 1, Len(s))

Min(a, b) == IF a < b THEN a ELSE b

\* ord() of a suit character
Ord(s) == CASE s = "C" -> 67 [] s = "D" -> 68 [] s = "H" -> 72 [] s = "S" -> 83

\* (a.rank, a.suit) < (b.rank, b.suit)
KeyLess(a, b) == a.rank < b.rank \/ (a.rank = b.rank /\ Ord(a.suit) < Ord(b.suit))

\* the standard deck in ascending (rank, suit) order
deck_ascending ==
    LET pos == [k \in 1..52 |->
                  Cardinality({j \in 1..52 : KeyLess(standard_deck[j], standard_deck[k])})]
    IN [p \in 1..52 |-> standard_deck[CHOOSE k \in 1..52 : pos[k] = p - 1]]

\* sorted(cards, key=(rank, suit)) for pairwise different cards of the deck: the
\* cards in ascending key order
SortedAsc(cards) ==
    LET present == SeqSet(cards)
    IN SelectSeq(deck_ascending, LAMBDA c : c \in present)

card_sort_desc(cards) == Reverse(SortedAsc(cards))

(***************************************************************************)
(* generator.py: the helpers of the solved-layout constructor.             *)
(***************************************************************************)
draw_deck(d) == Shuffle(standard_deck, d)

required_reserve_count(R, C) == R * 2 + C * 2

\* the second to sixth lowest cards instead of the 5 lowest
pick_opponent_row_skipping_lowest(grid_cards) ==
    SubSeq(SortedAsc(grid_cards), 2, Min(6, Len(grid_cards)))

pick_opponent_row_from_grid(grid_cards) ==
    SubSeq(SortedAsc(grid_cards), 1, Min(5, Len(grid_cards)))

fifth_vs_sixth_highest_ok(cards) ==
    LET desc == card_sort_desc(cards)
    IN IF Len(desc) < 6 THEN FALSE ELSE desc[5].rank /= desc[6].rank

\* lines 36-40: suit_to_cards[s]
suit_cards(remaining_grid, s) == SelectSeq(remaining_grid, LAMBDA c : c.suit = s)

\* the suits with at least 5 cards, listed in the iteration order of a set of
\* strings, which follows the hash seed of the run
suit_candidates_in_set_order(remaining_grid) ==
    LET present == {remaining_grid[k].suit : k \in 1..Len(remaining_grid)}
        order == IF hashseed % 2 = 0 THEN SUITS ELSE [k \in 1..4 |-> SUITS[5 - k]]
    IN SelectSeq(order, LAMBDA s : s \in present /\ Len(suit_cards(remaining_grid, s)) >= 5)

\* lines 36-40: the suits with at least 5 cards, in the insertion order of the
\* keys of suit_to_cards (the order of first occurrence in remaining_grid)
suit_candidates(remaining_grid) ==
    LET n == Len(remaining_grid)
        firsts == SelectSeq([k \in 1..n |-> k],
                            LAMBDA k : \A j \in 1..(k - 1) :
                                          remaining_grid[j].suit /= remaining_grid[k].suit)
        keys == [i \in 1..Len(firsts) |-> remaining_grid[firsts[i]].suit]
    IN SelectSeq(keys, LAMBDA s : Len(suit_cards(remaining_grid, s)) >= 5)

find_suit_row(opponent_row, remaining_grid, dChoice, dShuffle) ==
    LET suits_in_opp == {opponent_row[k].suit : k \in 1..Len(opponent_row)}
        candidates == suit_candidates(remaining_grid)
    IN IF Cardinality(suits_in_opp) = 1
         THEN [suit |-> NoSuit, cards |-> opponent_row]
       ELSE IF candidates = <<>>
         THEN [suit |-> NoSuit, cards |-> <<>>]
       ELSE LET suit == choice(candidates, dChoice)
                chosen == Shuffle(suit_cards(remaining_grid, suit), dShuffle)
            IN [suit |-> suit, cards |-> SubSeq(chosen, 1, 5)]

\* the loop of find_column_sequence from row r on; None when a rank is missing
RECURSIVE ColumnLoop(_, _, _, _, _, _, _, _, _)
ColumnLoop(r, R, needed, opponent_row_index, suite_row_index, opponent_row, pool_suit, pool_remaining, sequence) ==
    IF r >= R THEN Some(sequence)
    ELSE
      LET target_rank == needed[r + 1]
          fromSuit == SelectSeq(pool_suit, LAMBDA c : c.rank = target_rank)
          fromOpp == SelectSeq(opponent_row, LAMBDA c : c.rank = target_rank)
          fromRemaining == SelectSeq(pool_remaining, LAMBDA c : c.rank = target_rank)
      IN IF suite_row_index /= None /\ r = suite_row_index[1]
           THEN IF fromSuit = <<>> THEN None
                ELSE ColumnLoop(r + 1, R, needed, opponent_row_index, suite_row_index,
                                opponent_row, RemoveFirst(pool_suit, fromSuit[1]),
                                pool_remaining, Append(sequence, fromSuit[1]))
         ELSE IF r = opponent_row_index
                 /\ \E k \in 1..Len(opponent_row) : opponent_row[k].rank = target_rank
           THEN IF fromOpp = <<>> THEN None
                ELSE ColumnLoop(r + 1, R, needed, opponent_row_index, suite_row_index,
                                opponent_row, pool_suit, pool_remaining,
                                Append(sequence, fromOpp[1]))
         ELSE IF fromRemaining = <<>> THEN None
         ELSE ColumnLoop(r + 1, R, needed, opponent_row_index, suite_row_index,
                         opponent_row, pool_suit,
                         RemoveFirst(pool_remaining, fromRemaining[1]),
                         Append(sequence, fromRemaining[1]))

\* every row two ranks above the row before
find_column_sequence_by_twos(R, opponent_row_index, suite_row_index, opponent_row, suit_row_cards, remaining) ==
    LET base_rank == CHOOSE m \in {opponent_row[k].rank : k \in 1..Len(opponent_row)} :
                        \A k \in 1..Len(opponent_row) : opponent_row[k].rank <= m
        start_rank == base_rank - opponent_row_index
        needed == [r \in 1..R |-> start_rank + 2 * (r - 1)]
    IN IF needed[1] < 2 \/ needed[R] > 14 THEN None
       ELSE ColumnLoop(0, R, needed, opponent_row_index, suite_row_index, opponent_row,
                       suit_row_cards, remaining, <<>>)

find_column_sequence(R, opponent_row_index, suite_row_index, opponent_row, suit_row_cards, remaining) ==
    LET base_rank == CHOOSE m \in {opponent_row[k].rank : k \in 1..Len(opponent_row)} :
                        \A k \in 1..Len(opponent_row) : opponent_row[k].rank <= m
        start_rank == base_rank - opponent_row_index
        needed == [r \in 1..R |-> start_rank + (r - 1)]
    IN IF needed[1] < 2 \/ needed[R] > 14 THEN None
       ELSE ColumnLoop(0, R, needed, opponent_row_index, suite_row_index, opponent_row,
                       suit_row_cards, remaining, <<>>)

(***************************************************************************)
(* generator.py: one attempt of build_solved_layout (the body of the loop  *)
(* of line 100 up to line 193), as a function of the player count and of   *)
(* the attempt's random draws d.  The body is taken in its stages; each    *)
(* stage receives the locals s of the attempt so far and leaves them as    *)
(* they are once the attempt is over (s.outcome is "continue" for a        *)
(* discarded attempt and "raise" for an exception leaving the function).   *)
(***************************************************************************)
EmptyCode == <<>>

Discarded(outcome) ==
    [outcome |-> outcome, rows |-> <<>>, row_reserves |-> <<>>, col_reserves |-> <<>>,
     opponent_row_index |-> 0, chosen_suit_row_index |-> None, col_index |-> 0,
     grid_cards |-> <<>>, reserve_pool |-> <<>>, opp_row_cards |-> <<>>,
     suit_row_cards |-> <<>>, chosen_seq |-> <<>>]

\* the 0-based columns of the row that are still empty, ascending
Empties(row) == SelectSeq([k \in 1..num_cols |-> k - 1], LAMBDA i : row[i + 1] = EmptyCode)

\* for c_obj, idx in zip(cards, empties): row[idx] = c_obj.code
ZipFill(row, cards, empties) ==
    [k \in 1..num_cols |->
        IF \E m \in 1..Min(Len(cards), Len(empties)) : empties[m] = k - 1
          THEN code(cards[CHOOSE m \in 1..Min(Len(cards), Len(empties)) : empties[m] = k - 1])
          ELSE row[k]]

CodesOf(rows) == {rows[r][c] : r \in 1..Len(rows), c \in 1..num_cols} \ {EmptyCode}

\* lines 101-110: the deck is drawn and cut into the grid cards and the reserve pool
deal_grid(p, d) ==
    LET R == p + 1
        deck == draw_deck(d.deck)
        grid_count == R * num_cols
        reserve_need == required_reserve_count(R, num_cols)
    IN IF grid_count + reserve_need > Len(deck)
         THEN [outcome |-> "raise"]
         ELSE [outcome |-> IF fifth_vs_sixth_highest_ok(SubSeq(deck, 1, grid_count))
                             THEN "running" ELSE "continue",
               R |-> R,
               grid_cards |-> SubSeq(deck, 1, grid_count),
               reserve_pool |-> SubSeq(deck, grid_count + 1, Len(deck))]

\* lines 112-113
pick_opponent(s) ==
    IF s.outcome /= "running" THEN s
    ELSE s @@ [opp_row_cards |-> pick_opponent_row_from_grid(s.grid_cards)]

\* lines 113-116
pick_suit_row(d, s) ==
    IF s.outcome /= "running" THEN s
    ELSE LET remaining_grid == SelectSeq(s.grid_cards, LAMBDA c : ~InSeq(c, s.opp_row_cards))
             fs == find_suit_row(s.opp_row_cards, remaining_grid, d.suit_choice,
                                 d.suit_shuffle)
         IN s @@ [remaining_grid |-> remaining_grid,
                  suit |-> fs.suit,
                  suit_row_cards |-> fs.cards,
                  opponent_row_index |-> randrange(s.R, d.opp)]

\* lines 118-124
pick_candidates(d, s) ==
    IF s.outcome /= "running" THEN s
    ELSE s @@ [candidate_indices |->
                  IF s.suit = NoSuit /\ SeqSet(s.suit_row_cards) = SeqSet(s.opp_row_cards)
                    THEN <<s.opponent_row_index>>
                    ELSE Shuffle([k \in 1..s.R |-> k - 1], d.cand_shuffle),
               remaining |->
                  SelectSeq(s.remaining_grid, LAMBDA c : ~InSeq(c, s.suit_row_cards))]

\* lines 126-142: the first candidate suit row index with a column sequence
choose_sequence(s) ==
    IF s.outcome /= "running" THEN s
    ELSE LET col_seq(s_idx) ==
                 find_column_sequence(s.R, s.opponent_row_index, Some(s_idx),
                                      s.opp_row_cards, s.suit_row_cards, s.remaining)
             working == SelectSeq(s.candidate_indices, LAMBDA s_idx : col_seq(s_idx) /= None)
         IN IF working = <<>>
              THEN [outcome |-> "continue"]
              ELSE s @@ [chosen_suit_row_index |-> Some(working[1]),
                         chosen_seq |-> col_seq(working[1])[1]]

\* lines 144-150
place_column(d, s) ==
    IF s.outcome /= "running" THEN s
    ELSE LET col_index == randrange(num_cols, d.col)
         IN s @@ [col_index |-> col_index,
                  rows |-> [r \in 1..s.R |-> [c \in 1..num_cols |->
                              IF c = col_index + 1 THEN code(s.chosen_seq[r])
                              ELSE EmptyCode]]]

\* lines 153-159 and 163-169: the cards of a row not yet in it go to its empty cells
fill_row(s, row_index, cards) ==
    LET row == s.rows[row_index + 1]
        already_in == SeqSet(row) \ {EmptyCode}
        remaining_cards == SelectSeq(cards, LAMBDA c : code(c) \notin already_in)
        empties == Empties(row)
    IN IF Len(empties) < Len(remaining_cards)
         THEN [outcome |-> "continue"]
         ELSE [s EXCEPT !.rows[row_index + 1] = ZipFill(row, remaining_cards, empties)]

\* lines 152-159
fill_opponent_row(s) ==
    IF s.outcome /= "running" THEN s
    ELSE fill_row(s, s.opponent_row_index, s.opp_row_cards)

\* the suit row left to the remaining grid cards
fill_suit_row_skipped(s) == s

\* lines 161-169
fill_suit_row(s) ==
    IF s.outcome /= "running" THEN s
    ELSE IF /\ s.chosen_suit_row_index /= None
            /\ s.chosen_suit_row_index[1] /= s.opponent_row_index
            /\ s.suit_row_cards /= <<>>
           THEN fill_row(s, s.chosen_suit_row_index[1], s.suit_row_cards)
           ELSE s

\* lines 175-178: the empty cells in the order of the loops, each popping the pool
pop_into(rows, pool) ==
    LET R == Len(rows)
        holes == SelectSeq([k \in 1..(R * num_cols) |-> k - 1],
                           LAMBDA k : rows[(k \div num_cols) + 1][(k % num_cols) + 1] = EmptyCode)
        holeNo(r, c) == CHOOSE m \in 1..Len(holes) : holes[m] = (r - 1) * num_cols + (c - 1)
    IN IF Len(holes) > Len(pool)
         THEN None
         ELSE Some([r \in 1..R |-> [c \in 1..num_cols |->
                      IF rows[r][c] = EmptyCode
                        THEN code(pool[Len(pool) + 1 - holeNo(r, c)])
                        ELSE rows[r][c]]])

\* lines 171-178
place_remaining(d, s) ==
    IF s.outcome /= "running" THEN s
    ELSE LET used_codes == CodesOf(s.rows)
             remaining_pool ==
                 Shuffle(SelectSeq(s.remaining_grid, LAMBDA c : code(c) \notin used_codes),
                         d.pool_shuffle)
             filled == pop_into(s.rows, remaining_pool)
         IN IF filled = None THEN [outcome |-> "raise"]
            ELSE [s EXCEPT !.rows = filled[1]]

\* a reserve that pops without the factor 2, so that neighbouring reserves overlap
reserve_pair_overlapping(pool, k) ==
    <<code(pool[Len(pool) - k]), code(pool[Len(pool) - k - 1])>>

\* lines 187-193: reserve number k (0-based, rows first, then columns) pops twice
reserve_pair(pool, k) ==
    <<code(pool[Len(pool) - 2 * k]), code(pool[Len(pool) - 2 * k - 1])>>

\* lines 180-193
assign_reserves(d, s) ==
    IF s.outcome /= "running" THEN s
    ELSE LET pool == Shuffle(s.reserve_pool, d.reserve_shuffle)
             need == required_reserve_count(s.R, num_cols)
         IN IF Len(pool) < need
              THEN [outcome |-> "continue"]
              ELSE s @@ [row_reserves |-> [r \in 1..s.R |-> reserve_pair(pool, r - 1)],
                         col_reserves |->
                            [c \in 1..num_cols |-> reserve_pair(pool, s.R + c - 1)]]

\* the locals of a finished attempt as they are before line 195
locals(s) ==
    IF s.outcome /= "running" THEN Discarded(s.outcome)
    ELSE [outcome |-> "built", rows |-> s.rows, row_reserves |-> s.row_reserves,
          col_reserves |-> s.col_reserves, opponent_row_index |-> s.opponent_row_index,
          chosen_suit_row_index |-> s.chosen_suit_row_index, col_index |-> s.col_index,
          grid_cards |-> s.grid_cards, reserve_pool |-> s.reserve_pool,
          opp_row_cards |-> s.opp_row_cards, suit_row_cards |-> s.suit_row_cards,
          chosen_seq |-> s.chosen_seq]

attempt(p, d) ==
    locals(assign_reserves(d, place_remaining(d, fill_suit_row(fill_opponent_row(
        place_column(d, choose_sequence(pick_candidates(d, pick_suit_row(d, pick_opponent(
            deal_grid(p, d)))))))))))

(***************************************************************************)
(* generator.py lines 195-212: the rows are renumbered so that the         *)
(* opponent row comes first, and the Layout and the metadata are returned. *)
(***************************************************************************)
\* an ordering that puts the opponent row last
new_order_opponent_last(R, opponent_row_index) ==
    SelectSeq([k \in 1..R |-> k - 1], LAMBDA i : i /= opponent_row_index)
    \o <<opponent_row_index>>

new_order(R, opponent_row_index) ==
    <<opponent_row_index>>
    \o SelectSeq([k \in 1..R |-> k - 1], LAMBDA i : i /= opponent_row_index)

\* old_to_new.get(old, old)
old_to_new(order, old) ==
    IF InSeq(old, order) THEN (CHOOSE k \in 1..Len(order) : order[k] = old) - 1 ELSE old

normalized(b) ==
    LET R == Len(b.rows)
        order == new_order(R, b.opponent_row_index)
    IN [layout |->
          [rows |-> [k \in 1..R |-> b.rows[order[k] + 1]],
           row_reserves |-> [k \in 1..R |-> b.row_reserves[order[k] + 1]],
           col_reserves |-> b.col_reserves,
           opponent_row_index |-> 0],
        meta |->
          [opponent_row_index |-> 0,
           suite_row_index |->
              IF b.chosen_suit_row_index /= None
                THEN Some(old_to_new(order, b.chosen_suit_row_index[1]))
                ELSE None,
           column_index |-> b.col_index]]

(***************************************************************************)
(* The Layout state machine: any of the five actions with valid indices,   *)
(* applied to a Layout of R rows, and the inverse of the action just       *)
(* applied.                                                                *)
(***************************************************************************)
NoAction == Action("none", <<>>)

NoLayout == [rows |-> <<>>, row_reserves |-> <<>>, col_reserves |-> <<>>,
             opponent_row_index |-> 0]

NoMeta == [opponent_row_index |-> 0, suite_row_index |-> None, column_index |-> 0]

\* the values of the variables a specification does not use
ActionIdle == before = NoLayout /\ last = NoAction /\ origin = NoLayout /\ nsteps = 0

BuildIdle == max_attempts = 0 /\ attempts = 0 /\ built = Discarded("none") /\ meta = NoMeta

ScrambleIdle ==
    /\ solved = NoLayout
    /\ steps = 0
    /\ actions_taken = <<>>
    /\ solution_actions = None
    /\ cur = NoLayout
    /\ replayed = 0

TwinIdle == tape = <<>> /\ first = <<>> /\ hashseed = 0

HeapIdle == heap = <<>> /\ solved_obj = <<>> /\ scrambled_obj = <<>>

EloIdle == diff_cfg = <<>> /\ ranked_rows = <<>> /\ elo_value = 0 /\ level_choice = <<>>

RatingIdle == elo_cfg = <<>> /\ rating = 0 /\ folded = 0

PairIdle == other_rows = <<>> /\ other_choice = <<>>

ServeIdle == stored = <<>> /\ served = <<>>

\* the variables the request handlers leave alone
otherVars == <<layout, pc, players, actionVars, buildVars, scrambleVars, twinVars, heapVars,
               eloVars, ratingVars, pairVars, serveVars>>

AppIdle ==
    /\ invites = <<>>
    /\ game_sessions = <<>>
    /\ game_results = <<>>
    /\ lobby_ready = {}
    /\ clock = 0
    /\ response = <<>>
    /\ requests = 0
    /\ threads = <<>>

\* A Layout of R rows dealt from the standard deck in deck order: the grid row
\* by row, then the row reserves, then the column reserves.
DealtLayout(R, opp) ==
    LET cds == cards_to_codes(standard_deck)
    IN [rows |-> [r \in 1..R |-> SubSeq(cds, 5 * (r - 1) + 1, 5 * r)],
        row_reserves |-> [r \in 1..R |-> SubSeq(cds, 5 * R + 2 * r - 1, 5 * R + 2 * r)],
        col_reserves |-> [c \in 1..num_cols |->
                            SubSeq(cds, 7 * R + 2 * c - 1, 7 * R + 2 * c)],
        opponent_row_index |-> opp]

ValidActions(L) ==
    {SwapAction(r, i, j) : r \in 0..(num_rows(L) - 1), i \in Cols, j \in Cols}
    \cup {RowAction(t, r) : t \in {"row_right", "row_left"}, r \in 0..(num_rows(L) - 1)}
    \cup {ColAction(t, c) : t \in {"col_down", "col_up"}, c \in Cols}

Init ==
    /\ \E R \in RowCounts : \E opp \in 0..(R - 1) : layout = DealtLayout(R, opp)
    /\ before = layout
    /\ origin = layout
    /\ last = NoAction
    /\ nsteps = 0
    /\ pc = "ready"
    /\ players = num_rows(layout) - 1
    /\ BuildIdle
    /\ ScrambleIdle
    /\ TwinIdle
    /\ HeapIdle
    /\ EloIdle
    /\ RatingIdle
    /\ PairIdle
    /\ ServeIdle
    /\ AppIdle

Apply(a) ==
    /\ pc \in {"ready", "applied", "undone"}
    /\ nsteps < MaxActions
    /\ before' = layout
    /\ layout' = apply_action(layout, a)
    /\ last' = a
    /\ nsteps' = nsteps + 1
    /\ pc' = "applied"
    /\ UNCHANGED <<origin, players, buildVars, scrambleVars,
                   twinVars, heapVars, eloVars,
                   ratingVars, pairVars, serveVars, appVars>>

Swap == \E r \in 0..(num_rows(layout) - 1) : \E i \in Cols : \E j \in Cols :
            Apply(SwapAction(r, i, j))

RowRight == \E r \in 0..(num_rows(layout) - 1) : Apply(RowAction("row_right", r))

RowLeft == \E r \in 0..(num_rows(layout) - 1) : Apply(RowAction("row_left", r))

ColDown == \E c \in Cols : Apply(ColAction("col_down", c))

ColUp == \E c \in Cols : Apply(ColAction("col_up", c))

\* the inverse of the action just applied, applied to its result
Undo ==
    /\ pc = "applied"
    /\ layout' = apply_action(layout, inverse_action(last))
    /\ pc' = "undone"
    /\ UNCHANGED <<before, last, origin, nsteps, players, buildVars, scrambleVars,
                   twinVars, heapVars, eloVars,
                   ratingVars, pairVars, serveVars, appVars>>

Next == Swap \/ RowRight \/ RowLeft \/ ColDown \/ ColUp \/ Undo

Spec == Init /\ [][Next]_vars

(***************************************************************************)
(* build_solved_layout: a bounded loop of attempts.  Each attempt draws    *)
(* its random values and either returns the normalized Layout with its     *)
(* metadata or is discarded; an exhausted budget raises RuntimeError.      *)
(***************************************************************************)
\* The draws of one attempt: the deck order, the two randrange values, and the
\* remaining draws (one choice, four shuffles) taken together from RngStreams.
Draw(deck, opp, col, s) ==
    [deck |-> deck, opp |-> opp, col |-> col, suit_choice |-> s.suit_choice,
     suit_shuffle |-> s.suit_shuffle, cand_shuffle |-> s.cand_shuffle,
     pool_shuffle |-> s.pool_shuffle, reserve_shuffle |-> s.reserve_shuffle]

Draws(p) == {Draw(deck, opp, col, s) : deck \in DeckDraws, opp \in 0..p, col \in Cols,
                                        s \in RngStreams}

InitBuild ==
    /\ players \in 1..MaxPlayers
    /\ max_attempts \in 0..MaxAttempts
    /\ attempts = 0
    /\ built = Discarded("none")
    /\ meta = NoMeta
    /\ layout = NoLayout
    /\ ActionIdle
    /\ ScrambleIdle
    /\ TwinIdle
    /\ HeapIdle
    /\ EloIdle
    /\ RatingIdle
    /\ PairIdle
    /\ ServeIdle
    /\ AppIdle
    /\ pc = "build"

BuildAttempt ==
    /\ pc = "build"
    /\ attempts < max_attempts
    /\ \E d \in Draws(players) :
         LET b == attempt(players, d)
         IN /\ attempts' = attempts + 1
            /\ built' = b
            /\ IF b.outcome = "built"
                 THEN /\ layout' = normalized(b).layout
                      /\ meta' = normalized(b).meta
                      /\ pc' = "returned"
                 ELSE /\ UNCHANGED <<layout, meta, appVars>>
                      /\ pc' = IF b.outcome = "raise" THEN "raised" ELSE "build"
    /\ UNCHANGED <<players, max_attempts, actionVars, scrambleVars,
                   twinVars, heapVars, eloVars,
                   ratingVars, pairVars, serveVars, appVars>>

\* the attempts counted anew once the budget is used up
BuildRetry ==
    /\ pc = "build"
    /\ attempts >= max_attempts
    /\ attempts' = 0
    /\ UNCHANGED <<pc, layout, players, max_attempts, built, meta, actionVars,
                   scrambleVars, twinVars, heapVars, eloVars,
                   ratingVars, pairVars, serveVars, appVars>>

\* line 213
BuildFail ==
    /\ pc = "build"
    /\ attempts >= max_attempts
    /\ pc' = "failed"
    /\ UNCHANGED <<layout, players, actionVars, buildVars, scrambleVars,
                   twinVars, heapVars, eloVars,
                   ratingVars, pairVars, serveVars, appVars>>

NextBuild == BuildAttempt \/ BuildFail

SpecBuild == InitBuild /\ [][NextBuild]_vars

\* the call moves on: one more pass of the loop of line 100 is counted, or the
\* call leaves the loop by its return or by one of its two raises
BuildProgress ==
    /\ pc = "build"
    /\ pc' \in {"build", "returned", "raised", "failed"}
    /\ attempts' \in {attempts, attempts + 1}

\* build_solved_layout is one sequential call without a blocking operation:
\* while it has neither returned nor raised, it moves on
SpecBuildFair == SpecBuild /\ WF_<<pc, attempts>>(BuildProgress)

(***************************************************************************)
(* generator.py: random_legal_action and scramble_from_solved, and the     *)
(* replay of the returned solution on a copy of the scrambled Layout.      *)
(***************************************************************************)
\* the rows visited by the loop of line 235 that pass the test of line 236
PlayerRowsOf(L) ==
    SelectSeq([k \in 1..num_rows(L) |-> k - 1], LAMBDA r : r /= L.opponent_row_index)

\* lines 238-243 without the test of line 242: the swap is offered always
RowChoices_with_any_swap(r, ij) ==
    <<RowAction("row_right", r), RowAction("row_left", r), SwapAction(r, ij[1], ij[2])>>

\* lines 238-243 for the m-th visited row, whose draws are ij = <<i, j>>
RowChoices(r, ij) ==
    <<RowAction("row_right", r), RowAction("row_left", r)>>
    \o (IF ij[1] /= ij[2] THEN <<SwapAction(r, ij[1], ij[2])>> ELSE <<>>)

RECURSIVE AllRowChoices(_, _, _)
AllRowChoices(rs, ijs, m) ==
    IF m > Len(rs) THEN <<>>
    ELSE RowChoices(rs[m], ijs[m]) \o AllRowChoices(rs, ijs, m + 1)

RECURSIVE AllColChoices(_)
AllColChoices(c) ==
    IF c >= num_cols THEN <<>>
    ELSE <<ColAction("col_down", c), ColAction("col_up", c)>> \o AllColChoices(c + 1)

legal_choices(L, ijs) == AllRowChoices(PlayerRowsOf(L), ijs, 1) \o AllColChoices(0)

\* d.ij: the pairs randrange(num_cols), randrange(num_cols) drawn for the visited
\* rows, in order; d.pick: the draw of rng.choice
random_legal_action(L, d, p) == choice(legal_choices(L, d.ij), d.pick)

\* the inverses in the order the actions were taken
solution_in_taken_order(taken) == [k \in 1..Len(taken) |-> inverse_action(taken[k])]

\* the reversed inverses of all actions but the first one taken
solution_without_first(taken) ==
    [k \in 1..(Len(taken) - 1) |-> inverse_action(taken[Len(taken) + 1 - k])]

\* line 262
solution_of(taken) == [k \in 1..Len(taken) |-> inverse_action(taken[Len(taken) + 1 - k])]

\* A solved Layout as build_solved_layout returns it for p players.
SampleStream ==
    [suit_choice |-> 0, suit_shuffle |-> Reflect, cand_shuffle |-> Reflect,
     pool_shuffle |-> Identity, reserve_shuffle |-> Identity]

SampleDraws(p) ==
    {Draw([stride |-> 1, rot |-> rot], 0, 1, SampleStream) : rot \in {0, 3, 4}}

SolvedSamples(p) ==
    {normalized(attempt(p, d)).layout :
        d \in {e \in SampleDraws(p) : attempt(p, e).outcome = "built"}}

ActionDraws(L) ==
    [ij : [1..(num_rows(L) - 1) -> ColumnDraws], pick : 0..(3 * (num_rows(L) - 1) + 2 * num_cols - 1)]

InitScramble ==
    /\ players \in ScramblePlayers
    /\ solved \in SolvedSamples(players)
    /\ steps \in 0..MaxSteps
    /\ layout = clone(solved)
    /\ actions_taken = <<>>
    /\ solution_actions = None
    /\ cur = NoLayout
    /\ replayed = 0
    /\ ActionIdle
    /\ BuildIdle
    /\ TwinIdle
    /\ HeapIdle
    /\ EloIdle
    /\ RatingIdle
    /\ PairIdle
    /\ ServeIdle
    /\ AppIdle
    /\ pc = "scramble"

\* one iteration of the loop of line 258
ScrambleStep ==
    /\ pc = "scramble"
    /\ Len(actions_taken) < steps
    /\ \E d \in ActionDraws(layout) :
         LET a == random_legal_action(layout, d, players)
         IN /\ layout' = apply_action(layout, a)
            /\ actions_taken' = Append(actions_taken, a)
    /\ UNCHANGED <<pc, players, solved, steps, solution_actions, cur, replayed,
                   actionVars, buildVars,
                   twinVars, heapVars, eloVars,
                   ratingVars, pairVars, serveVars, appVars>>

\* lines 262-263; the caller clones the scrambled Layout for the replay
ScrambleReturn ==
    /\ pc = "scramble"
    /\ Len(actions_taken) >= steps
    /\ solution_actions' = Some(solution_of(actions_taken))
    /\ cur' = clone(layout)
    /\ replayed' = 0
    /\ pc' = "replay"
    /\ UNCHANGED <<layout, players, solved, steps, actions_taken, actionVars, buildVars,
                   twinVars, heapVars, eloVars,
                   ratingVars, pairVars, serveVars, appVars>>

\* apply_action(cur, a) for the next action a of the solution
ReplayStep ==
    /\ pc = "replay"
    /\ replayed < Len(solution_actions[1])
    /\ cur' = apply_action(cur, solution_actions[1][replayed + 1])
    /\ replayed' = replayed + 1
    /\ UNCHANGED <<pc, layout, players, solved, steps, actions_taken, solution_actions,
                   actionVars, buildVars,
                   twinVars, heapVars, eloVars,
                   ratingVars, pairVars, serveVars, appVars>>

ReplayDone ==
    /\ pc = "replay"
    /\ replayed >= Len(solution_actions[1])
    /\ pc' = "replayed"
    /\ UNCHANGED <<layout, players, solved, steps, actions_taken, solution_actions, cur,
                   replayed, actionVars, buildVars,
                   twinVars, heapVars, eloVars,
                   ratingVars, pairVars, serveVars, appVars>>

NextScramble == ScrambleStep \/ ScrambleReturn \/ ReplayStep \/ ReplayDone

SpecScramble == InitScramble /\ [][NextScramble]_vars

(***************************************************************************)
(* Two runs of build_solved_layout followed by scramble_from_solved with   *)
(* the same players, max_attempts and steps.  The first run draws freely   *)
(* and records its draws on tape; the second run, a new process with any   *)
(* hash seed, receives the same draws in the same order.                   *)
(***************************************************************************)
TwinPlayers == {1, 3}

HashSeeds == {0, 1}

TwinPicks == {1, 2, 9}

TwinBuildDraws(p) ==
    {Draw([stride |-> 1, rot |-> rot], 0, 1, SampleStream) : rot \in 0..MaxDeckRot}

TwinActionDraws(L) ==
    {[ij |-> [r \in 1..(num_rows(L) - 1) |-> cd], pick |-> k] :
        cd \in {<<0, 0>>, <<3, 1>>}, k \in TwinPicks}

\* the draws the current run may receive next: any for the first run, the
\* recorded one for the second
NextDraws(free) == IF first = None THEN free ELSE {Head(tape)}

Consumed(d) == IF first = None THEN Append(tape, d) ELSE Tail(tape)

\* what a run hands to its caller
TwinOutputs ==
    [solved |-> to_dict(solved), meta |-> meta, scrambled |-> to_dict(layout),
     solution |-> solution_actions, ended |-> pc]

InitTwin ==
    /\ players \in TwinPlayers
    /\ max_attempts = MaxAttempts
    /\ steps \in 0..MaxSteps
    /\ hashseed \in HashSeeds
    /\ tape = <<>>
    /\ first = None
    /\ attempts = 0
    /\ built = Discarded("none")
    /\ meta = NoMeta
    /\ layout = NoLayout
    /\ solved = NoLayout
    /\ actions_taken = <<>>
    /\ solution_actions = None
    /\ cur = NoLayout
    /\ replayed = 0
    /\ ActionIdle
    /\ HeapIdle
    /\ EloIdle
    /\ RatingIdle
    /\ PairIdle
    /\ ServeIdle
    /\ AppIdle
    /\ pc = "build"

\* one iteration of the loop of build_solved_layout; on success the Layout is
\* returned and scramble_from_solved clones it
TwinAttempt ==
    /\ pc = "build"
    /\ attempts < max_attempts
    /\ \E d \in NextDraws(TwinBuildDraws(players)) :
         LET b == attempt(players, d)
         IN /\ attempts' = attempts + 1
            /\ tape' = Consumed(d)
            /\ IF b.outcome = "built"
                 THEN /\ solved' = normalized(b).layout
                      /\ meta' = normalized(b).meta
                      /\ layout' = clone(normalized(b).layout)
                      /\ pc' = "scramble"
                 ELSE /\ UNCHANGED <<solved, meta, layout, appVars>>
                      /\ pc' = IF b.outcome = "raise" THEN "raised" ELSE "build"
    /\ UNCHANGED <<players, max_attempts, steps, built, actions_taken, solution_actions,
                   cur, replayed, first, hashseed, actionVars, heapVars, eloVars,
                   ratingVars, pairVars, serveVars, appVars>>

TwinFail ==
    /\ pc = "build"
    /\ attempts >= max_attempts
    /\ pc' = "failed"
    /\ UNCHANGED <<layout, players, actionVars, buildVars, scrambleVars,
                   twinVars, heapVars, eloVars,
                   ratingVars, pairVars, serveVars, appVars>>

TwinStep ==
    /\ pc = "scramble"
    /\ Len(actions_taken) < steps
    /\ \E d \in NextDraws(TwinActionDraws(layout)) :
         LET a == random_legal_action(layout, d, players)
         IN /\ layout' = apply_action(layout, a)
            /\ actions_taken' = Append(actions_taken, a)
            /\ tape' = Consumed(d)
    /\ UNCHANGED <<pc, players, solved, steps, solution_actions, cur, replayed,
                   first, hashseed, actionVars, buildVars, heapVars, eloVars,
                   ratingVars, pairVars, serveVars, appVars>>

TwinReturn ==
    /\ pc = "scramble"
    /\ Len(actions_taken) >= steps
    /\ solution_actions' = Some(solution_of(actions_taken))
    /\ pc' = "returned"
    /\ UNCHANGED <<layout, players, solved, steps, actions_taken, cur, replayed,
                   actionVars, buildVars, twinVars, heapVars, eloVars,
                   ratingVars, pairVars, serveVars, appVars>>

\* the first run is over: its outputs are kept and the second run starts
TwinRerun ==
    /\ pc \in {"returned", "failed", "raised"}
    /\ first = None
    /\ first' = Some(TwinOutputs)
    /\ hashseed' \in HashSeeds
    /\ attempts' = 0
    /\ meta' = NoMeta
    /\ layout' = NoLayout
    /\ solved' = NoLayout
    /\ actions_taken' = <<>>
    /\ solution_actions' = None
    /\ pc' = "build"
    /\ UNCHANGED <<players, max_attempts, steps, built, cur, replayed, tape,
                   actionVars, heapVars, eloVars,
                   ratingVars, pairVars, serveVars, appVars>>

NextTwin == TwinAttempt \/ TwinFail \/ TwinStep \/ TwinReturn \/ TwinRerun

SpecTwin == InitTwin /\ [][NextTwin]_vars

(***************************************************************************)
(* Layout objects in memory.  heap maps the address of every list object   *)
(* to its contents: a list of card codes, or, for the lists rows,          *)
(* row_reserves and col_reserves of a Layout, a list of addresses of such  *)
(* lists.  A Layout object holds the addresses of its three lists.         *)
(***************************************************************************)
\* a new list of new lists with the given contents: [list(r) for r in ...]
store_lists(h, lists) ==
    LET n == Len(lists)
        base == Len(h)
    IN [heap |-> h \o lists \o <<[k \in 1..n |-> base + k]>>, addr |-> base + n + 1]

\* Layout(rows=..., row_reserves=..., col_reserves=..., opponent_row_index=...)
new_layout(h, L) ==
    LET a == store_lists(h, L.rows)
        b == store_lists(a.heap, L.row_reserves)
        c == store_lists(b.heap, L.col_reserves)
    IN [heap |-> c.heap,
        obj |-> [rows |-> a.addr, row_reserves |-> b.addr, col_reserves |-> c.addr,
                 opponent_row_index |-> L.opponent_row_index]]

\* the contents of the lists of a list of lists
deref_lists(h, addr) == [k \in 1..Len(h[addr]) |-> h[h[addr][k]]]

\* the Layout value an object stands for
deref(h, obj) ==
    [rows |-> deref_lists(h, obj.rows),
     row_reserves |-> deref_lists(h, obj.row_reserves),
     col_reserves |-> deref_lists(h, obj.col_reserves),
     opponent_row_index |-> obj.opponent_row_index]

\* a copy with new outer lists that hold the same row and reserve lists
heap_clone_shared_lists(h, obj) ==
    LET h1 == h \o <<h[obj.rows], h[obj.row_reserves], h[obj.col_reserves]>>
    IN [heap |-> h1,
        obj |-> [rows |-> Len(h) + 1, row_reserves |-> Len(h) + 2,
                 col_reserves |-> Len(h) + 3,
                 opponent_row_index |-> obj.opponent_row_index]]

\* Layout.clone
heap_clone(h, obj) == new_layout(h, deref(h, obj))

\* the list objects reachable from a Layout object
lists_of(h, obj) ==
    {obj.rows, obj.row_reserves, obj.col_reserves}
    \cup SeqSet(h[obj.rows]) \cup SeqSet(h[obj.row_reserves]) \cup SeqSet(h[obj.col_reserves])

\* rows[r][k] = ...: the cells of the row lists are written in place
write_rows(h, obj, rows) ==
    [a \in 1..Len(h) |->
        IF \E r \in 1..Len(rows) : h[obj.rows][r] = a
          THEN rows[CHOOSE r \in 1..Len(rows) : h[obj.rows][r] = a]
          ELSE h[a]]

\* reserves[index] = [x, y]: a new list object is put into the outer list
replace_reserve(h, outer, index, pair) ==
    LET h1 == Append(h, pair)
    IN [h1 EXCEPT ![outer][index + 1] = Len(h) + 1]

\* apply_action on a Layout object
heap_apply(h, obj, a) ==
    LET L == apply_action(deref(h, obj), a)
        h1 == write_rows(h, obj, L.rows)
    IN CASE a.type = "swap" -> h1
         [] a.type \in {"row_right", "row_left"} ->
              replace_reserve(h1, obj.row_reserves, a.params.row_index,
                              L.row_reserves[a.params.row_index + 1])
         [] a.type \in {"col_down", "col_up"} ->
              replace_reserve(h1, obj.col_reserves, a.params.col_index,
                              L.col_reserves[a.params.col_index + 1])

\* actions a caller applies to the returned scrambled Layout
LaterActions(L) ==
    {RowAction("row_right", 1), SwapAction(1, 0, 1), ColAction("col_down", 0),
     ColAction("col_up", 4)}

InitAlias ==
    /\ players \in ScramblePlayers
    /\ solved \in SolvedSamples(players)
    /\ steps \in 0..MaxSteps
    /\ heap = new_layout(<<>>, solved).heap
    /\ solved_obj = new_layout(<<>>, solved).obj
    /\ scrambled_obj = None
    /\ actions_taken = <<>>
    /\ solution_actions = None
    /\ layout = NoLayout
    /\ cur = NoLayout
    /\ replayed = 0
    /\ ActionIdle
    /\ BuildIdle
    /\ TwinIdle
    /\ EloIdle
    /\ RatingIdle
    /\ PairIdle
    /\ ServeIdle
    /\ AppIdle
    /\ pc = "call"

\* line 256: layout = solved.clone()
AliasClone ==
    /\ pc = "call"
    /\ heap' = heap_clone(heap, solved_obj).heap
    /\ scrambled_obj' = Some(heap_clone(heap, solved_obj).obj)
    /\ pc' = "scramble"
    /\ UNCHANGED <<layout, players, solved_obj, actionVars, buildVars, scrambleVars,
                   twinVars, eloVars,
                   ratingVars, pairVars, serveVars, appVars>>

\* one iteration of the loop of line 258, on the clone
AliasStep ==
    /\ pc = "scramble"
    /\ Len(actions_taken) < steps
    /\ \E d \in TwinActionDraws(deref(heap, scrambled_obj[1])) :
         LET a == random_legal_action(deref(heap, scrambled_obj[1]), d, players)
         IN /\ heap' = heap_apply(heap, scrambled_obj[1], a)
            /\ actions_taken' = Append(actions_taken, a)
    /\ UNCHANGED <<pc, layout, players, solved, steps, solution_actions, cur, replayed,
                   solved_obj, scrambled_obj, actionVars, buildVars, twinVars, eloVars,
                   ratingVars, pairVars, serveVars, appVars>>

\* lines 262-263
AliasReturn ==
    /\ pc = "scramble"
    /\ Len(actions_taken) >= steps
    /\ solution_actions' = Some(solution_of(actions_taken))
    /\ pc' = "returned"
    /\ UNCHANGED <<layout, players, solved, steps, actions_taken, cur, replayed,
                   heapVars, actionVars, buildVars, twinVars, eloVars,
                   ratingVars, pairVars, serveVars, appVars>>

\* the caller goes on and applies an action to the returned scrambled Layout
AliasLater ==
    /\ pc = "returned"
    /\ nsteps < MaxActions
    /\ \E a \in LaterActions(deref(heap, scrambled_obj[1])) :
         /\ heap' = heap_apply(heap, scrambled_obj[1], a)
         /\ last' = a
    /\ nsteps' = nsteps + 1
    /\ UNCHANGED <<pc, layout, players, before, origin, solved_obj, scrambled_obj,
                   buildVars, scrambleVars, twinVars, eloVars,
                   ratingVars, pairVars, serveVars, appVars>>

NextAlias == AliasClone \/ AliasStep \/ AliasReturn \/ AliasLater

SpecAlias == InitAlias /\ [][NextAlias]_vars

(***************************************************************************)
(* Actions with arbitrary indices applied to a Layout: a caller hands      *)
(* apply_action an action whose indices need not address the Layout.  An   *)
(* IndexError leaves the run (pc = "raised").                              *)
(***************************************************************************)
\* indices around the ends of a list of length n
IndexSamples(n) == {-n - 1, -n, -1, 0, n - 1, n}

SwapColumnSamples == {1, 5}

ApplyIndexed(a) ==
    /\ pc \in {"ready", "applied"}
    /\ nsteps < MaxActions
    /\ before' = layout
    /\ layout' = apply_action_or_raise(layout, a).layout
    /\ last' = a
    /\ nsteps' = nsteps + 1
    /\ pc' = IF apply_action_or_raise(layout, a).raised THEN "raised" ELSE "applied"
    /\ UNCHANGED <<origin, players, buildVars, scrambleVars,
                   twinVars, heapVars, eloVars,
                   ratingVars, pairVars, serveVars, appVars>>

IndexedSwap ==
    \E r \in IndexSamples(num_rows(layout)) : \E i \in IndexSamples(num_cols) :
        \E j \in SwapColumnSamples : ApplyIndexed(SwapAction(r, i, j))

IndexedRow ==
    \E t \in {"row_right", "row_left"} : \E r \in IndexSamples(num_rows(layout)) :
        ApplyIndexed(RowAction(t, r))

IndexedCol ==
    \E t \in {"col_down", "col_up"} : \E c \in IndexSamples(num_cols) :
        ApplyIndexed(ColAction(t, c))

NextIndexed == IndexedSwap \/ IndexedRow \/ IndexedCol

SpecIndexed == Init /\ [][NextIndexed]_vars

(***************************************************************************)
(* elo.py: select_ranked_level.  The numbers the code holds as floats are   *)
(* held exactly: a win rate and an interpolated level as a fraction         *)
(* [num, den] with den > 0, the two win-rate thresholds in hundredths       *)
(* (low_pct 35 for 0.35), and an ELO rating as an integer.  A result of the *)
(* history is [solved, level].                                              *)
(***************************************************************************)
MaxGames == 2

\* lines 34-49: RankedDifficultyConfig()
RankedDifficultyConfig ==
    [min_level |-> 1, max_level |-> 20, window_games |-> 20,
     floor_level_at_low_winrate |-> 1, ceil_level_at_high_winrate |-> 10,
     low_pct |-> 35, high_pct |-> 65, blend_with_elo |-> TRUE,
     elo_min |-> 1000, elo_max |-> 1800, elo_to_level_min |-> 2,
     elo_to_level_max |-> 12, clamp_delta_per_game |-> 2]

\* the configs, levels of played games and ratings select_ranked_level is given
LevelConfigs ==
    {RankedDifficultyConfig} \cup
    [min_level : {1, 3}, max_level : {2, 4}, window_games : {0, 1},
     floor_level_at_low_winrate : {0}, ceil_level_at_high_winrate : {5},
     low_pct : {35, 50}, high_pct : {50, 65}, blend_with_elo : BOOLEAN,
     elo_min : {1000}, elo_max : {1000, 1800}, elo_to_level_min : {2},
     elo_to_level_max : {7}, clamp_delta_per_game : {0, 1}]

PlayedLevels == {0, 2, 6}

Ratings == {900, 1300, 1500, 2000}

\* Python round() of the fraction num / den, den > 0: to the nearest integer,
\* a tie to the even one
round(num, den) ==
    LET q == num \div den
        r == num - q * den
    IN IF 2 * r < den THEN q
       ELSE IF 2 * r > den THEN q + 1
       ELSE IF q % 2 = 0 THEN q ELSE q + 1

\* line 115 without the window: the whole history
tail_of_whole_history(recent_ranked_results, cfg) == recent_ranked_results

\* line 115
tail_of(recent_ranked_results, cfg) ==
    LET n == Len(recent_ranked_results)
        w == cfg.window_games
    IN IF w /= 0 /\ n > w
         THEN IF w > 0 THEN SubSeq(recent_ranked_results, n - w + 1, n)
              ELSE SubSeq(recent_ranked_results, Min(n, -w) + 1, n)
         ELSE recent_ranked_results

\* lines 116-118
win_rate(tail) ==
    LET n_attempts == Len(tail)
        wins == Len(SelectSeq(tail, LAMBDA g : g.solved = 1))
    IN IF n_attempts > 0 THEN [num |-> wins, den |-> n_attempts] ELSE [num |-> 1, den |-> 2]

\* lines 121-129
wr_level(wr, cfg) ==
    IF 100 * wr.num <= cfg.low_pct * wr.den
      THEN cfg.floor_level_at_low_winrate
    ELSE IF 100 * wr.num >= cfg.high_pct * wr.den
      THEN cfg.ceil_level_at_high_winrate
    ELSE LET span == cfg.high_pct - cfg.low_pct
             frac == IF span > 0
                       THEN [num |-> 100 * wr.num - cfg.low_pct * wr.den, den |-> span * wr.den]
                       ELSE [num |-> 1, den |-> 2]
             width == cfg.ceil_level_at_high_winrate - cfg.floor_level_at_low_winrate
         IN round(cfg.floor_level_at_low_winrate * frac.den + frac.num * width, frac.den)

\* lines 133-139; None for the ZeroDivisionError of line 138
elo_level(user_elo, cfg) ==
    IF user_elo <= cfg.elo_min THEN Some(cfg.elo_to_level_min)
    ELSE IF user_elo >= cfg.elo_max THEN Some(cfg.elo_to_level_max)
    ELSE IF cfg.elo_max - cfg.elo_min = 0 THEN None
    ELSE Some(round(cfg.elo_to_level_min * (cfg.elo_max - cfg.elo_min)
                      + (user_elo - cfg.elo_min)
                        * (cfg.elo_to_level_max - cfg.elo_to_level_min),
                    cfg.elo_max - cfg.elo_min))

\* lines 132-142; None when elo_level raised
blend(wr_lvl, user_elo, cfg) ==
    IF cfg.blend_with_elo
      THEN IF elo_level(user_elo, cfg) = None THEN None
           ELSE Some(round(wr_lvl + elo_level(user_elo, cfg)[1], 2))
      ELSE Some(wr_lvl)

\* the target level left as it is
smooth_skipped(recent_ranked_results, target_level, cfg) == target_level

\* lines 145-151
smooth(recent_ranked_results, target_level, cfg) ==
    IF recent_ranked_results /= <<>>
      THEN LET last_level == recent_ranked_results[Len(recent_ranked_results)].level
               delta == target_level - last_level
           IN IF delta > cfg.clamp_delta_per_game
                THEN last_level + cfg.clamp_delta_per_game
              ELSE IF delta < -cfg.clamp_delta_per_game
                THEN last_level - cfg.clamp_delta_per_game
              ELSE target_level
      ELSE target_level

\* the target level only kept at or below max_level
clamp_level_from_above(target_level, cfg) ==
    IF cfg.max_level < target_level THEN cfg.max_level ELSE target_level

\* line 154: max(cfg.min_level, min(cfg.max_level, target_level))
clamp_level(target_level, cfg) ==
    LET upper == Min(cfg.max_level, target_level)
    IN IF cfg.min_level >= upper THEN cfg.min_level ELSE upper

\* the target level before smoothing and clamping, None when the call raised
target_of(recent_ranked_results, user_elo, cfg) ==
    blend(wr_level(win_rate(tail_of(recent_ranked_results, cfg)), cfg), user_elo, cfg)

\* Some(level), or None when the call raised
select_ranked_level(recent_ranked_results, user_elo, cfg) ==
    IF target_of(recent_ranked_results, user_elo, cfg) = None THEN None
    ELSE Some(clamp_level(smooth(recent_ranked_results,
                                 target_of(recent_ranked_results, user_elo, cfg)[1], cfg),
                          cfg))

InitLevel ==
    /\ diff_cfg \in LevelConfigs
    /\ ranked_rows = <<>>
    /\ elo_value \in Ratings
    /\ level_choice = None
    /\ layout = NoLayout
    /\ players = 1
    /\ ActionIdle
    /\ BuildIdle
    /\ ScrambleIdle
    /\ TwinIdle
    /\ HeapIdle
    /\ RatingIdle
    /\ PairIdle
    /\ ServeIdle
    /\ AppIdle
    /\ pc = "select"

\* serve.py lines 313-314: the level of the next ranked game is selected
SelectLevel ==
    /\ pc = "select"
    /\ level_choice' = select_ranked_level(ranked_rows, elo_value, diff_cfg)
    /\ pc' = IF level_choice' = None THEN "raised" ELSE "selected"
    /\ UNCHANGED <<layout, players, diff_cfg, ranked_rows, elo_value, actionVars, buildVars,
                   scrambleVars, twinVars, heapVars, ratingVars, pairVars, serveVars, appVars>>

\* a ranked game is played and its result joins the history; the rating is
\* computed anew from the history
PlayGame ==
    /\ pc = "selected"
    /\ Len(ranked_rows) < MaxGames
    /\ \E solved_int \in {0, 1}, lvl \in PlayedLevels :
         ranked_rows' = Append(ranked_rows, [solved |-> solved_int, level |-> lvl])
    /\ elo_value' \in Ratings
    /\ level_choice' = None
    /\ pc' = "select"
    /\ UNCHANGED <<layout, players, diff_cfg, actionVars, buildVars, scrambleVars, twinVars,
                   heapVars, ratingVars, pairVars, serveVars, appVars>>

NextLevel == SelectLevel \/ PlayGame

SpecLevel == InitLevel /\ [][NextLevel]_vars

(***************************************************************************)
(* select_ranked_level called for two result histories with one rating and *)
(* one config: ranked_rows and level_choice are the first history and its  *)
(* level, other_rows and other_choice the second.                          *)
(***************************************************************************)
\* the configs and levels of played games the two calls are given
PairConfigs ==
    {[RankedDifficultyConfig EXCEPT !.window_games = w, !.blend_with_elo = b,
                                    !.clamp_delta_per_game = d] :
        w \in {0, 1, 2}, b \in BOOLEAN, d \in {0, 2}}

PairLevels == {2, 6}

PairRatings == {900, 1500}

InitPair ==
    /\ diff_cfg \in PairConfigs
    /\ elo_value \in PairRatings
    /\ ranked_rows = <<>>
    /\ other_rows = <<>>
    /\ level_choice = None
    /\ other_choice = None
    /\ layout = NoLayout
    /\ players = 1
    /\ ActionIdle
    /\ BuildIdle
    /\ ScrambleIdle
    /\ TwinIdle
    /\ HeapIdle
    /\ RatingIdle
    /\ ServeIdle
    /\ AppIdle
    /\ pc = "select"

\* a game joins the first history
PlayFirst ==
    /\ pc = "select"
    /\ Len(ranked_rows) < MaxGames
    /\ \E solved_int \in {0, 1}, lvl \in PairLevels :
         ranked_rows' = Append(ranked_rows, [solved |-> solved_int, level |-> lvl])
    /\ UNCHANGED <<pc, layout, players, diff_cfg, elo_value, level_choice, pairVars,
                   actionVars, buildVars, scrambleVars, twinVars, heapVars, ratingVars,
                   serveVars, appVars>>

\* a game joins the second history
PlayOther ==
    /\ pc = "select"
    /\ Len(other_rows) < MaxGames
    /\ \E solved_int \in {0, 1}, lvl \in PairLevels :
         other_rows' = Append(other_rows, [solved |-> solved_int, level |-> lvl])
    /\ UNCHANGED <<pc, layout, players, eloVars, other_choice, actionVars, buildVars,
                   scrambleVars, twinVars, heapVars, ratingVars, serveVars, appVars>>

\* lines 103-155 for each of the two histories
SelectPair ==
    /\ pc = "select"
    /\ level_choice' = select_ranked_level(ranked_rows, elo_value, diff_cfg)
    /\ other_choice' = select_ranked_level(other_rows, elo_value, diff_cfg)
    /\ pc' = IF level_choice' = None \/ other_choice' = None THEN "raised" ELSE "selected"
    /\ UNCHANGED <<layout, players, diff_cfg, ranked_rows, elo_value, other_rows,
                   actionVars, buildVars, scrambleVars, twinVars, heapVars, ratingVars,
                   serveVars, appVars>>

NextPair == PlayFirst \/ PlayOther \/ SelectPair

SpecPair == InitPair /\ [][NextPair]_vars

(***************************************************************************)
(* elo.py: compute_user_elo.  Floats are held in fixed point: a rating in   *)
(* thousandths of a rating point, an expected score and a recency weight   *)
(* in thousandths (Milli is 1.0).  10 ** x and 0.5 ** x are taken from     *)
(* tables in steps of an eighth and of a quarter.  A timestamp is          *)
(* [kind, age_days]: kind "naive" is an ISO string without UTC offset that *)
(* lies age_days before now, "aware" one with a UTC offset, "malformed" a  *)
(* string fromisoformat rejects, "missing" a None.  A game of the history  *)
(* is [created_at, solved, level].                                         *)
(***************************************************************************)
Milli == 1000

\* lines 21-25: EloConfig()
EloConfig ==
    [initial_rating |-> 1200, k_factor |-> 32, level_base |-> 1000, level_scale |-> 80,
     recency_halflife_days |-> 30]

\* the configs, timestamps and levels compute_user_elo is given
EloConfigs ==
    {EloConfig} \cup
    [initial_rating : {1200}, k_factor : {0, 32, -32}, level_base : {1000},
     level_scale : {80}, recency_halflife_days : {0, 30}]

Timestamps ==
    {[kind |-> "naive", age_days |-> 0], [kind |-> "naive", age_days |-> 45],
     [kind |-> "naive", age_days |-> -3], [kind |-> "aware", age_days |-> 45],
     [kind |-> "malformed", age_days |-> 0], [kind |-> "missing", age_days |-> 0]}

FoldLevels == {1, 10, 2000}

\* 10 ** (j / 8) and 0.5 ** (j / 4) in thousandths
Pow10Eighths == <<1000, 1334, 1778, 2371, 3162, 4217, 5623, 7499>>

HalfQuarters == <<1000, 841, 707, 595>>

TenTo == <<1, 10, 100, 1000, 10000>>

\* line 53, for ratings in thousandths; None for the OverflowError of
\* 10.0 ** x with x above 308
expected_score(player_rating, opponent_rating) ==
    LET d == (opponent_rating - player_rating) \div Milli
        q == d \div 400
        eighth == Pow10Eighths[((d % 400) \div 50) + 1]
    IN IF q > 308 THEN None
       ELSE IF q >= 5 THEN Some(0)
       ELSE IF q <= -5 THEN Some(Milli)
       ELSE IF q >= 0 THEN Some((Milli * Milli) \div (Milli + eighth * TenTo[q + 1]))
       ELSE Some((Milli * Milli) \div (Milli + eighth \div TenTo[1 - q]))

\* 0.5 ** (age_days / halflife) in thousandths
half_power(age_days, halflife) ==
    LET q == age_days \div halflife
        quarter == HalfQuarters[(((age_days % halflife) * 4) \div halflife) + 1]
    IN IF q >= 10 THEN 0 ELSE quarter \div (2 ^ q)

\* lines 56-65; None for the TypeError of line 62 (naive now minus aware played)
game_weight(created_at, cfg) ==
    IF created_at.kind \in {"malformed", "missing"} THEN Some(Milli)
    ELSE IF created_at.kind = "aware" THEN None
    ELSE LET age_days == IF created_at.age_days > 0 THEN created_at.age_days ELSE 0
         IN IF cfg.recency_halflife_days <= 0 THEN Some(Milli)
            ELSE Some(half_power(age_days, cfg.recency_halflife_days))

\* line 69
opponent_rating_from_level(lvl, cfg) == (cfg.level_base + cfg.level_scale * lvl) * Milli

\* line 90 with the signs of actual and expected exchanged
next_rating_reversed(r, k_factor, w, actual, expected) ==
    r + round(k_factor * w * (expected - actual), Milli)

\* lines 89-90: rating + (k_factor * w) * (actual - expected)
next_rating(r, k_factor, w, actual, expected) ==
    r + round(k_factor * w * (actual - expected), Milli)

\* lines 85-90: one pass of the loop; None when the pass raises
fold_game(r, game, cfg) ==
    LET expected == expected_score(r, opponent_rating_from_level(game.level, cfg))
        actual == IF game.solved = 1 THEN Milli ELSE 0
        w == game_weight(game.created_at, cfg)
    IN IF expected = None \/ w = None THEN None
       ELSE Some(next_rating(r, cfg.k_factor, w[1], actual, expected[1]))

Games == [created_at : Timestamps, solved : {0, 1}, level : FoldLevels]

InitRating ==
    /\ elo_cfg \in EloConfigs
    /\ ranked_rows = <<>>
    /\ rating = 0
    /\ folded = 0
    /\ elo_value = 0
    /\ diff_cfg = <<>>
    /\ level_choice = <<>>
    /\ layout = NoLayout
    /\ players = 1
    /\ ActionIdle
    /\ BuildIdle
    /\ ScrambleIdle
    /\ TwinIdle
    /\ HeapIdle
    /\ PairIdle
    /\ ServeIdle
    /\ AppIdle
    /\ pc = "played"

\* one more ranked game is played and stored with its timestamp
RecordGame ==
    /\ pc = "played"
    /\ Len(ranked_rows) < MaxGames
    /\ \E game \in Games : ranked_rows' = Append(ranked_rows, game)
    /\ UNCHANGED <<pc, layout, players, diff_cfg, elo_value, level_choice, ratingVars,
                   actionVars, buildVars, scrambleVars, twinVars, heapVars, pairVars,
                   serveVars, appVars>>

\* lines 80-83: compute_user_elo is called with the history
FoldStart ==
    /\ pc = "played"
    /\ rating' = elo_cfg.initial_rating * Milli
    /\ folded' = 0
    /\ pc' = "fold"
    /\ UNCHANGED <<layout, players, elo_cfg, eloVars, actionVars, buildVars, scrambleVars,
                   twinVars, heapVars, pairVars, serveVars, appVars>>

\* lines 84-90: the next game of the history is folded into the rating
FoldGame ==
    /\ pc = "fold"
    /\ folded < Len(ranked_rows)
    /\ folded' = folded + 1
    /\ IF fold_game(rating, ranked_rows[folded + 1], elo_cfg) = None
         THEN rating' = rating /\ pc' = "raised"
         ELSE rating' = fold_game(rating, ranked_rows[folded + 1], elo_cfg)[1] /\ pc' = "fold"
    /\ UNCHANGED <<layout, players, elo_cfg, eloVars, actionVars, buildVars, scrambleVars,
                   twinVars, heapVars, pairVars, serveVars, appVars>>

\* line 91
FoldReturn ==
    /\ pc = "fold"
    /\ folded >= Len(ranked_rows)
    /\ elo_value' = rating
    /\ pc' = "returned"
    /\ UNCHANGED <<layout, players, diff_cfg, ranked_rows, level_choice, ratingVars,
                   actionVars, buildVars, scrambleVars, twinVars, heapVars, pairVars,
                   serveVars, appVars>>

NextRating == RecordGame \/ FoldStart \/ FoldGame \/ FoldReturn

SpecRating == InitRating /\ [][NextRating]_vars

(***************************************************************************)
(* serve.py: _normalize_layout_and_actions on a stored puzzle.  A JSON     *)
(* text is None when it is empty or json.loads rejects it, and Some(value) *)
(* of the value it encodes otherwise.  stored is the puzzle record         *)
(* insert_puzzle wrote; served is the triple the function returned.        *)
(***************************************************************************)
\* lines 68-75: json.loads(text) if text else None, None on an exception
json_loads(text) == IF text = None THEN None ELSE text[1]

\* json.dumps of a value
json_dumps(value) == Some(value)

\* [xs[old] for old in new_order]
reordered(xs, order) == [k \in 1..Len(order) |-> xs[order[k] + 1]]

\* the row reserves left in their places
new_row_res_left_in_place(row_res, order) == row_res

\* line 90
new_row_res(row_res, order) ==
    IF row_res /= <<>> /\ Len(row_res) = Len(order) THEN reordered(row_res, order)
    ELSE row_res

\* lines 102-114 for one action dict
remap_action(a, order) ==
    IF a.type \in {"row_left", "row_right", "swap"} /\ "row_index" \in DOMAIN a.params
      THEN Action(a.type, [a.params EXCEPT !.row_index = old_to_new(order, @)])
      ELSE Action(a.type, a.params)

Returned(layout_out, actions_out, opponent_row_index_out) ==
    [layout |-> layout_out, actions |-> actions_out,
     opponent_row_index |-> opponent_row_index_out]

\* lines 84-121: the index is valid; new_order and old_to_new of lines 85-86
\* are those of generator.py lines 199-200
normalize_rows(L, actions, opponent_row_index) ==
    LET order == new_order(Len(L.rows), opponent_row_index)
        row_res == new_row_res(L.row_reserves, order)
        layout_norm == [L EXCEPT !.rows = reordered(L.rows, order),
                                 !.row_reserves = IF row_res /= <<>> THEN row_res ELSE @,
                                 !.opponent_row_index = 0]
    IN Returned(Some(layout_norm),
                [k \in 1..Len(actions) |-> remap_action(actions[k], order)], 0)

\* lines 63-121; a value of actions_json that is no list counts as None
normalize_layout_and_actions(start_layout_json, actions_json, opponent_row_index) ==
    LET parsed == json_loads(start_layout_json)
        actions == IF actions_json = None THEN <<>> ELSE json_loads(actions_json)
    IN IF parsed = None THEN Returned(None, actions, 0)
       ELSE IF \/ parsed.rows = <<>>
               \/ opponent_row_index < 0
               \/ opponent_row_index >= Len(parsed.rows)
         THEN Returned(Some(parsed), actions, parsed.opponent_row_index)
       ELSE normalize_rows(parsed, actions, opponent_row_index)

\* the actions stored with a puzzle
StoredActions(L) ==
    {SwapAction(r, 0, 4) : r \in 0..(num_rows(L) - 1)}
    \cup {RowAction(t, r) : t \in {"row_right", "row_left"}, r \in 0..(num_rows(L) - 1)}
    \cup {ColAction("col_up", 2)}

\* generate_puzzles.py lines 51-62: insert_puzzle of a Layout and, so far, no
\* actions
InitServe ==
    /\ \E R \in RowCounts : \E opp \in 0..(R - 1) :
          stored = [start_layout_json |-> json_dumps(to_dict(DealtLayout(R, opp))),
                    actions_json |-> json_dumps(<<>>),
                    opponent_row_index |-> opp]
    /\ served = None
    /\ layout = NoLayout
    /\ players = 1
    /\ ActionIdle
    /\ BuildIdle
    /\ ScrambleIdle
    /\ TwinIdle
    /\ HeapIdle
    /\ EloIdle
    /\ RatingIdle
    /\ PairIdle
    /\ AppIdle
    /\ pc = "stored"

\* one more action of the puzzle's stored solution
StoreAction ==
    /\ pc = "stored"
    /\ Len(stored.actions_json[1]) < MaxActions
    /\ \E a \in StoredActions(stored.start_layout_json[1]) :
          stored' = [stored EXCEPT !.actions_json = json_dumps(Append(@[1], a))]
    /\ UNCHANGED <<pc, served, layout, players, actionVars, buildVars, scrambleVars,
                   twinVars, heapVars, eloVars, ratingVars, pairVars, appVars>>

\* serve.py lines 487-489: the stored puzzle is normalised for a client
ServePuzzle ==
    /\ pc = "stored"
    /\ served' = Some(normalize_layout_and_actions(stored.start_layout_json,
                                                   stored.actions_json,
                                                   stored.opponent_row_index))
    /\ pc' = "served"
    /\ UNCHANGED <<stored, layout, players, actionVars, buildVars, scrambleVars,
                   twinVars, heapVars, eloVars, ratingVars, pairVars, appVars>>

\* the function is called on what it returned
ServeAgain ==
    /\ pc = "served"
    /\ stored' = [start_layout_json |-> served[1].layout,
                  actions_json |-> json_dumps(served[1].actions),
                  opponent_row_index |-> served[1].opponent_row_index]
    /\ served' = Some(normalize_layout_and_actions(stored'.start_layout_json,
                                                   stored'.actions_json,
                                                   stored'.opponent_row_index))
    /\ pc' = "served_again"
    /\ UNCHANGED <<layout, players, actionVars, buildVars, scrambleVars,
                   twinVars, heapVars, eloVars, ratingVars, pairVars, appVars>>

NextServe == StoreAction \/ ServePuzzle \/ ServeAgain

SpecServe == InitServe /\ [][NextServe]_vars

(***************************************************************************)
(* db.py: the tables the request handlers of serve.py work on.  The row    *)
(* with id k of invites and of game_sessions is at place k of the          *)
(* sequence; a game_sessions row carries the user ids of its               *)
(* game_session_members rows as the set members.  A game_results row has   *)
(* session_id 0 where the column is NULL.  All invites and sessions have   *)
(* mode 'ranked', the only mode serve.py creates them with.  Time is       *)
(* counted in ticks; two ticks make a calendar day.  None is 0 where a     *)
(* user id or a session id is expected.                                    *)
(***************************************************************************)
Users == {1, 2}

Puzzles == {1, 2}

Modes == {"quick", "ranked"}

\* serve.py line 571: an invite lasts five minutes, here one tick
InviteTicks == 1

\* the calendar date of a time
Day(t) == t \div 2

\* line 473: expires_at <= datetime('now'), an ISO text with 'T' after the date
\* compared as text with SQLite's 'YYYY-MM-DD HH:MM:SS'; on equal dates 'T'
\* sorts after the space, so the test holds only for an earlier date
sqlite_expired(expires_at, now) == Day(expires_at) < Day(now)

\* lines 447-465
create_invite(inv, inviter_id, invitee_id, mode, expires_at_iso) ==
    Append(inv, [inviter_id |-> inviter_id, invitee_id |-> invitee_id, mode |-> mode,
                 status |-> "pending", expires_at |-> expires_at_iso])

\* lines 468-480
expire_old_invites(inv, now) ==
    [k \in 1..Len(inv) |->
       IF inv[k].status = "pending" /\ sqlite_expired(inv[k].expires_at, now)
         THEN [inv[k] EXCEPT !.status = "expired"]
         ELSE inv[k]]

\* an accept that does not look at the status of the invite
accept_invite_of_any_status(inv, invite_id, invitee_id, now) ==
    LET old == expire_old_invites(inv, now)
    IN IF invite_id \notin 1..Len(old) \/ old[invite_id].invitee_id /= invitee_id
         THEN [invites |-> old, ok |-> FALSE]
       ELSE IF old[invite_id].expires_at <= now
         THEN [invites |-> old, ok |-> FALSE]
       ELSE [invites |-> [old EXCEPT ![invite_id].status = "accepted"], ok |-> TRUE]

\* lines 500-516
accept_invite(inv, invite_id, invitee_id, now) ==
    LET old == expire_old_invites(inv, now)
    IN IF invite_id \notin 1..Len(old) \/ old[invite_id].invitee_id /= invitee_id
         THEN [invites |-> old, ok |-> FALSE]
       ELSE IF old[invite_id].status /= "pending" \/ old[invite_id].expires_at <= now
         THEN [invites |-> old, ok |-> FALSE]
       ELSE [invites |-> [old EXCEPT ![invite_id].status = "accepted"], ok |-> TRUE]

\* the WHERE clause of lines 528 and 547: accepted invites of the mode, not yet expired
AcceptedIds(inv, mode, now) ==
    {k \in 1..Len(inv) :
        inv[k].mode = mode /\ inv[k].status = "accepted" /\ inv[k].expires_at > now}

\* lines 519-534, the SELECT after the expire_old_invites of line 521: the user ids
get_party_for_inviter(inv, inviter_id, mode, now) ==
    {inv[k].invitee_id : k \in {j \in AcceptedIds(inv, mode, now) : inv[j].inviter_id = inviter_id}}

\* lines 537-554, the SELECT after the expire_old_invites of line 541; 0 is None
get_latest_inviter_for_invitee_and_mode(inv, invitee_id, mode, now) ==
    LET ids == {j \in AcceptedIds(inv, mode, now) : inv[j].invitee_id = invitee_id}
    IN IF ids = {} THEN 0
       ELSE inv[CHOOSE k \in ids : \A j \in ids : j <= k].inviter_id

\* lines 557-570; a row with ready = 0 reads like no row (ready_map.get(uid, False))
lobby_set_ready(ready_rows, inviter_id, mode, user_id, ready) ==
    IF ready THEN ready_rows \cup {<<inviter_id, mode, user_id>>}
    ELSE ready_rows \ {<<inviter_id, mode, user_id>>}

\* lines 645-653
lobby_clear_all_ready(ready_rows, inviter_id, mode) ==
    {r \in ready_rows : ~(r[1] = inviter_id /\ r[2] = mode)}

\* lines 619-642
cancel_accepted_invite(inv, ready_rows, inviter_id, invitee_id, mode) ==
    LET hit == {k \in 1..Len(inv) : /\ inv[k].inviter_id = inviter_id
                                     /\ inv[k].invitee_id = invitee_id
                                     /\ inv[k].mode = mode
                                     /\ inv[k].status = "accepted"}
    IN [invites |-> [k \in 1..Len(inv) |->
                       IF k \in hit THEN [inv[k] EXCEPT !.status = "cancelled"] ELSE inv[k]],
        lobby_ready |-> ready_rows \ {<<inviter_id, mode, invitee_id>>},
        ok |-> hit /= {}]

\* lines 656-687; the new row's id is the length of the result
create_game_session(sessions, inviter_id, puzzle_id, member_user_ids) ==
    Append(sessions, [puzzle_id |-> puzzle_id, inviter_id |-> inviter_id,
                      status |-> "active",
                      members |-> {inviter_id} \cup member_user_ids])

\* lines 690-707: the ids, and the first row of the result (0 if there is none)
get_active_sessions_for_user(sessions, user_id) ==
    {k \in 1..Len(sessions) :
        /\ sessions[k].status = "active"
        /\ (sessions[k].inviter_id = user_id \/ user_id \in sessions[k].members)}

first_session(ids) == IF ids = {} THEN 0 ELSE CHOOSE k \in ids : \A j \in ids : j <= k

\* lines 1072-1079
complete_session(sessions, session_id) ==
    IF session_id \in 1..Len(sessions)
      THEN [sessions EXCEPT ![session_id].status = "completed"]
      ELSE sessions

\* lines 347-359
add_game_result(results, puzzle_id, solved_flag, user_id) ==
    Append(results, [puzzle_id |-> puzzle_id, user_id |-> user_id,
                     solved |-> IF solved_flag THEN 1 ELSE 0, session_id |-> 0])

\* lines 959-972 for one user with a row added in every case
insert_result(results, session_id, puzzle_id, uid, solved_flag) ==
    Append(results, [puzzle_id |-> puzzle_id, user_id |-> uid,
                     solved |-> IF solved_flag THEN 1 ELSE 0, session_id |-> session_id])

\* lines 959-972 for one user: the row of the session and user is updated, or
\* one is inserted
upsert_result(results, session_id, puzzle_id, uid, solved_flag) ==
    LET rows == {k \in 1..Len(results) :
                    results[k].session_id = session_id /\ results[k].user_id = uid}
    IN IF rows /= {}
         THEN [results EXCEPT ![CHOOSE k \in rows : \A j \in rows : k <= j].solved =
                                   IF solved_flag THEN 1 ELSE 0]
         ELSE insert_result(results, session_id, puzzle_id, uid, solved_flag)

\* the loop of line 959 over the target users from uid on, in ascending order
RECURSIVE UpsertFrom(_, _, _, _, _, _)
UpsertFrom(results, session_id, puzzle_id, targets, uid, solved_flag) ==
    IF \A t \in targets : t < uid THEN results
    ELSE UpsertFrom(IF uid \in targets
                      THEN upsert_result(results, session_id, puzzle_id, uid, solved_flag)
                      ELSE results,
                    session_id, puzzle_id, targets, uid + 1, solved_flag)

\* lines 926-973
update_session_result(results, sessions, session_id, solved_flag) ==
    IF session_id \notin 1..Len(sessions) THEN results
    ELSE UpsertFrom(results, session_id, sessions[session_id].puzzle_id,
                    sessions[session_id].members \cup {sessions[session_id].inviter_id},
                    0, solved_flag)

\* lines 867-890: the puzzles of the sessions the user took part in
get_user_ranked_history_puzzle_ids(sessions, user_id) ==
    {sessions[k].puzzle_id : k \in {j \in 1..Len(sessions) :
        sessions[j].inviter_id = user_id \/ user_id \in sessions[j].members}}

\* lines 893-923: what the random pick can return, 0 for None (no puzzle of
\* the level and player count is left)
get_random_puzzle_for_level_and_players_excluding(exclude_puzzle_ids) ==
    (Puzzles \ exclude_puzzle_ids) \cup {0}

(***************************************************************************)
(* serve.py: the request handlers, each for a signed-in user u.  A handler *)
(* runs from its first line to its return in one step; response is what   *)
(* it returns: the status code, the "ok" of a JSON body (TRUE for a page   *)
(* or a redirect) and the session the answer points to (0 for none).       *)
(***************************************************************************)
MaxSessions == 3

MaxInvites == 1

MaxClock == 2

MaxRequests == 4

\* one more request is handled
Served == requests < MaxRequests /\ requests' = requests + 1

Answer(status_code, ok, session_id) ==
    [code |-> status_code, ok |-> ok, session_id |-> session_id]

\* a user is in a session: the test of lines 252, 465, 522 and 701
is_member(sessions, sid, user_id) ==
    user_id = sessions[sid].inviter_id \/ user_id \in sessions[sid].members

\* lines 215-218, 935-938, 992-994: the host of the user's lobby
host_of(inv, user_id, mode, now) ==
    LET latest_inviter == get_latest_inviter_for_invitee_and_mode(inv, user_id, mode, now)
    IN IF latest_inviter /= 0 THEN latest_inviter ELSE user_id

\* lines 550-574
api_invites_create(u, invitee_id) ==
    /\ Len(invites) < MaxInvites
    /\ IF invitee_id = u
         THEN /\ response' = Answer(400, FALSE, 0)
              /\ UNCHANGED invites
         ELSE /\ invites' = create_invite(invites, u, invitee_id, "ranked", clock + InviteTicks)
              /\ response' = Answer(200, TRUE, 0)
    /\ UNCHANGED <<game_sessions, game_results, lobby_ready, clock, threads, otherVars>>
    /\ Served

\* lines 597-615
api_invites_accept(u, invite_id) ==
    LET r == accept_invite(invites, invite_id, u, clock)
    IN /\ invites' = r.invites
       /\ response' = Answer(200, r.ok, 0)
       /\ UNCHANGED <<game_sessions, game_results, lobby_ready, clock, threads, otherVars>>
       /\ Served

\* lines 918-940, with the mode the play page posts
api_lobby_ready(u, ready_flag) ==
    LET inv == expire_old_invites(invites, clock)
    IN /\ invites' = inv
       /\ lobby_ready' = lobby_set_ready(lobby_ready, host_of(inv, u, "ranked", clock),
                                         "ranked", u, ready_flag)
       /\ response' = Answer(200, TRUE, 0)
       /\ UNCHANGED <<game_sessions, game_results, clock, threads, otherVars>>
       /\ Served

\* lines 942-963
api_lobby_kick(u, target_user_id) ==
    LET inv == expire_old_invites(invites, clock)
        r == cancel_accepted_invite(inv, lobby_ready, u, target_user_id, "ranked")
    IN /\ IF target_user_id \notin get_party_for_inviter(inv, u, "ranked", clock)
            THEN /\ invites' = inv
                 /\ response' = Answer(400, FALSE, 0)
                 /\ UNCHANGED lobby_ready
            ELSE /\ invites' = r.invites
                 /\ lobby_ready' = r.lobby_ready
                 /\ response' = Answer(200, r.ok, 0)
       /\ UNCHANGED <<game_sessions, game_results, clock, threads, otherVars>>
       /\ Served

\* lines 965-979
api_lobby_leave(u) ==
    LET inv == expire_old_invites(invites, clock)
        inviter_id == get_latest_inviter_for_invitee_and_mode(inv, u, "ranked", clock)
        r == cancel_accepted_invite(inv, lobby_ready, inviter_id, u, "ranked")
    IN /\ IF inviter_id = 0
            THEN /\ invites' = inv
                 /\ response' = Answer(400, FALSE, 0)
                 /\ UNCHANGED lobby_ready
            ELSE /\ invites' = r.invites
                 /\ lobby_ready' = r.lobby_ready
                 /\ response' = Answer(200, r.ok, 0)
       /\ UNCHANGED <<game_sessions, game_results, clock, threads, otherVars>>
       /\ Served

\* lines 999-1004: the party of more than one is ready
all_ready(inv, ready_rows, inviter_id, mode, now) ==
    LET members == {inviter_id} \cup get_party_for_inviter(inv, inviter_id, mode, now)
    IN Cardinality(members) > 1 => \A uid \in members : <<inviter_id, mode, uid>> \in ready_rows

\* lines 981-1044.  Line 1015 reads players_selected, a name that the function
\* never binds and the module does not define: the read raises NameError, the
\* request ends with status 500 and lines 1016-1044 are not reached.
api_lobby_start(u, mode) ==
    LET inv == expire_old_invites(invites, clock)
        inviter_id == host_of(inv, u, mode, clock)
        existing == get_active_sessions_for_user(game_sessions, inviter_id)
    IN /\ invites' = inv
       /\ response' =
            IF u /= inviter_id THEN Answer(403, FALSE, 0)
            ELSE IF ~all_ready(inv, lobby_ready, inviter_id, mode, clock)
              THEN Answer(400, FALSE, 0)
            ELSE IF existing /= {}
              THEN Answer(200, TRUE, first_session(existing))
            ELSE Answer(500, FALSE, 0)
       /\ UNCHANGED <<game_sessions, game_results, lobby_ready, clock, threads, otherVars>>
       /\ Served

\* lines 239-277: /play?session_id=..., and lines 279-304: /play without go=1
play_page(u, session_q) ==
    /\ invites' = expire_old_invites(invites, clock)
    /\ response' =
         IF /\ session_q \in 1..Len(game_sessions)
            /\ game_sessions[session_q].status = "active"
            /\ is_member(game_sessions, session_q, u)
           THEN Answer(200, TRUE, session_q)
         ELSE IF session_q /= 0 THEN Answer(302, TRUE, 0)
         ELSE Answer(200, TRUE, 0)
    /\ UNCHANGED <<game_sessions, game_results, lobby_ready, clock, threads, otherVars>>
    /\ Served

\* lines 206-235 and 306-365: /play?go=1
play(u) ==
    LET inv == expire_old_invites(invites, clock)
        host_id == host_of(inv, u, "ranked", clock)
        existing_rows == get_active_sessions_for_user(game_sessions, host_id)
        exclude_ids == get_user_ranked_history_puzzle_ids(game_sessions, u)
    IN /\ invites' = inv
       /\ IF existing_rows /= {}
            THEN /\ response' = Answer(302, TRUE, first_session(existing_rows))
                 /\ UNCHANGED game_sessions
            ELSE \E puzzle \in get_random_puzzle_for_level_and_players_excluding(exclude_ids) :
                   IF puzzle = 0
                     THEN /\ response' = Answer(200, TRUE, 0)
                          /\ UNCHANGED game_sessions
                     ELSE /\ Len(game_sessions) < MaxSessions
                          /\ game_sessions' =
                               create_game_session(game_sessions, host_id, puzzle,
                                   get_party_for_inviter(inv, host_id, "ranked", clock))
                          /\ response' = Answer(200, TRUE, Len(game_sessions'))
       /\ UNCHANGED <<game_results, lobby_ready, clock, threads, otherVars>>
       /\ Served

\* a recomputation that finds the posted actions to solve every stored puzzle
report_solved_flag_recomputed(sp_found) == sp_found

\* lines 395-412: the recomputation of solved_flag.  With the puzzle found,
\* line 410 imports is_layout_success from app.generator, which does not define
\* it: ImportError, caught at line 412
report_solved_flag(sp_found) == FALSE

\* lines 381-444; sid 0 is a form without session_id
report(u, puzzle_id, sid) ==
    LET solved_flag == report_solved_flag(puzzle_id \in Puzzles)
        results == update_session_result(game_results, game_sessions, sid, solved_flag)
    IN /\ IF sid = 0
            THEN /\ game_results' = add_game_result(game_results, puzzle_id, solved_flag, u)
                 /\ UNCHANGED <<game_sessions, lobby_ready>>
          ELSE IF sid \notin 1..Len(game_sessions) \/ u /= game_sessions[sid].inviter_id
            THEN UNCHANGED <<game_sessions, game_results, lobby_ready>>
          ELSE /\ game_results' = results
               /\ game_sessions' = IF solved_flag THEN complete_session(game_sessions, sid)
                                   ELSE game_sessions
               /\ lobby_ready' = lobby_clear_all_ready(lobby_ready, u, "ranked")
       /\ response' = Answer(302, TRUE, 0)
       /\ UNCHANGED <<invites, clock, threads, otherVars>>
       /\ Served

\* lines 468-477 and 703-710: the loss is recorded and the session completed
finalize(sid) ==
    /\ game_results' = update_session_result(game_results, game_sessions, sid, FALSE)
    /\ game_sessions' = complete_session(game_sessions, sid)
    /\ lobby_ready' = lobby_clear_all_ready(lobby_ready, game_sessions[sid].inviter_id, "ranked")
    /\ response' = Answer(200, TRUE, 0)

refuse(status_code) ==
    /\ response' = Answer(status_code, FALSE, 0)
    /\ UNCHANGED <<game_sessions, game_results, lobby_ready>>

\* lines 446-495, and lines 497-501 for the route /quick/give_up
play_give_up(route, u, sid) ==
    /\ IF sid \notin 1..Len(game_sessions) THEN refuse(404)
       ELSE IF game_sessions[sid].status /= "active" THEN refuse(400)
       ELSE IF ~is_member(game_sessions, sid, u) THEN refuse(403)
       ELSE IF u /= game_sessions[sid].inviter_id THEN refuse(403)
       ELSE finalize(sid)
    /\ UNCHANGED <<invites, clock, threads, otherVars>>
    /\ Served

\* lines 681-726
ranked_give_up(u, sid) ==
    /\ IF sid \notin 1..Len(game_sessions) THEN refuse(404)
       ELSE IF game_sessions[sid].status /= "active" THEN refuse(400)
       ELSE IF ~is_member(game_sessions, sid, u) THEN refuse(403)
       ELSE finalize(sid)
    /\ UNCHANGED <<invites, clock, threads, otherVars>>
    /\ Served

\* lines 503-547
play_try_again(u, sid) ==
    LET completed == IF game_sessions[sid].status = "active"
                       THEN complete_session(game_sessions, sid)
                       ELSE game_sessions
    IN /\ IF sid \notin 1..Len(game_sessions) THEN refuse(404)
          ELSE IF ~is_member(game_sessions, sid, u) THEN refuse(403)
          ELSE IF u /= game_sessions[sid].inviter_id THEN refuse(403)
          ELSE /\ Len(game_sessions) < MaxSessions
               /\ game_results' =
                    IF game_sessions[sid].status = "active"
                      THEN update_session_result(game_results, game_sessions, sid, FALSE)
                      ELSE game_results
               /\ lobby_ready' = lobby_clear_all_ready(lobby_ready, u, "ranked")
               /\ game_sessions' =
                    create_game_session(completed, game_sessions[sid].inviter_id,
                                        game_sessions[sid].puzzle_id, game_sessions[sid].members)
               /\ response' = Answer(200, TRUE, Len(game_sessions'))
       /\ UNCHANGED <<invites, clock, threads, otherVars>>
       /\ Served

\* time passes between two requests
Tick ==
    /\ clock < MaxClock
    /\ clock' = clock + 1
    /\ UNCHANGED <<invites, game_sessions, game_results, lobby_ready, response, requests,
                   threads, otherVars>>

Sids == 0..MaxSessions

GiveUpRoutes == {"/play/give_up", "/quick/give_up"}

\* the empty database of a fresh installation, no request handled yet
InitApp ==
    /\ invites = <<>>
    /\ game_sessions = <<>>
    /\ game_results = <<>>
    /\ lobby_ready = {}
    /\ clock = 0
    /\ response = Answer(0, TRUE, 0)
    /\ requests = 0
    /\ threads = <<>>
    /\ layout = NoLayout
    /\ players = 1
    /\ ActionIdle
    /\ BuildIdle
    /\ ScrambleIdle
    /\ TwinIdle
    /\ HeapIdle
    /\ EloIdle
    /\ RatingIdle
    /\ PairIdle
    /\ ServeIdle
    /\ pc = "serving"

NextApp ==
    \/ \E u \in Users, invitee_id \in Users : api_invites_create(u, invitee_id)
    \/ \E u \in Users, invite_id \in 1..MaxInvites : api_invites_accept(u, invite_id)
    \/ \E u \in Users, ready_flag \in BOOLEAN : api_lobby_ready(u, ready_flag)
    \/ \E u \in Users, target_user_id \in Users : api_lobby_kick(u, target_user_id)
    \/ \E u \in Users : api_lobby_leave(u)
    \/ \E u \in Users, mode \in Modes : api_lobby_start(u, mode)
    \/ \E u \in Users, session_q \in Sids : play_page(u, session_q)
    \/ \E u \in Users : play(u)
    \/ \E u \in Users, puzzle_id \in Puzzles, sid \in Sids : report(u, puzzle_id, sid)
    \/ \E route \in GiveUpRoutes, u \in Users, sid \in Sids : play_give_up(route, u, sid)
    \/ \E u \in Users, sid \in Sids : ranked_give_up(u, sid)
    \/ \E u \in Users, sid \in Sids : play_try_again(u, sid)
    \/ Tick

SpecApp == InitApp /\ [][NextApp]_vars

(***************************************************************************)
(* db.py called directly: sessions are created and completed and results   *)
(* are stored with either value of solved, as the signatures allow.        *)
(***************************************************************************)
InitDb ==
    /\ invites = <<>>
    /\ game_sessions = <<>>
    /\ game_results = <<>>
    /\ lobby_ready = {}
    /\ clock = 0
    /\ response = Answer(0, TRUE, 0)
    /\ requests = 0
    /\ threads = <<>>
    /\ layout = NoLayout
    /\ players = 1
    /\ ActionIdle
    /\ BuildIdle
    /\ ScrambleIdle
    /\ TwinIdle
    /\ HeapIdle
    /\ EloIdle
    /\ RatingIdle
    /\ PairIdle
    /\ ServeIdle
    /\ pc = "db"

CreateGameSession(inviter_id, puzzle_id, member_user_ids) ==
    /\ Len(game_sessions) < MaxSessions
    /\ game_sessions' = create_game_session(game_sessions, inviter_id, puzzle_id, member_user_ids)
    /\ Served
    /\ UNCHANGED <<invites, game_results, lobby_ready, clock, response, threads, otherVars>>

UpdateSessionResult(session_id, solved_flag) ==
    /\ game_results' = update_session_result(game_results, game_sessions, session_id, solved_flag)
    /\ Served
    /\ UNCHANGED <<invites, game_sessions, lobby_ready, clock, response, threads, otherVars>>

CompleteSession(session_id) ==
    /\ game_sessions' = complete_session(game_sessions, session_id)
    /\ Served
    /\ UNCHANGED <<invites, game_results, lobby_ready, clock, response, threads, otherVars>>

AddGameResult(puzzle_id, solved_flag, user_id) ==
    /\ game_results' = add_game_result(game_results, puzzle_id, solved_flag, user_id)
    /\ Served
    /\ UNCHANGED <<invites, game_sessions, lobby_ready, clock, response, threads, otherVars>>

NextDb ==
    \/ \E inviter_id \in Users, puzzle_id \in Puzzles, member_user_ids \in SUBSET Users :
          CreateGameSession(inviter_id, puzzle_id, member_user_ids)
    \/ \E session_id \in 1..MaxSessions, solved_flag \in BOOLEAN :
          UpdateSessionResult(session_id, solved_flag)
    \/ \E session_id \in 1..MaxSessions : CompleteSession(session_id)
    \/ \E puzzle_id \in Puzzles, solved_flag \in BOOLEAN, user_id \in Users :
          AddGameResult(puzzle_id, solved_flag, user_id)

SpecDb == InitDb /\ [][NextDb]_vars

(***************************************************************************)
(* Two /play?go=1 requests handled at the same time.  app.run (serve.py    *)
(* line 1087) serves every request in a thread of its own, and all         *)
(* handlers use the one connection of create_app (line 146), opened with   *)
(* check_same_thread=False (db.py line 104).  No lock and no transaction   *)
(* spans a handler: each db.py call commits by itself, so the calls of two *)
(* requests interleave in any order.  A thread's record holds the locals   *)
(* of play: the signed-in user, host_id, and session_id (0 while no        *)
(* session was created).                                                   *)
(***************************************************************************)
Workers == {1, 2}

Waiting == [pc |-> "waiting", user |-> 0, host_id |-> 0, session_id |-> 0]

\* the databases the two requests can find: no session yet, or one session
\* of a player on his own, active or completed
RaceSessions ==
    {<<>>} \cup
    {<<[puzzle_id |-> p, inviter_id |-> h, status |-> st, members |-> {h}]>> :
        p \in Puzzles, h \in Users, st \in {"active", "completed"}}

\* no invite, or user 2 in the party of user 1
RaceInvites ==
    {<<>>, <<[inviter_id |-> 1, invitee_id |-> 2, mode |-> "ranked",
              status |-> "accepted", expires_at |-> InviteTicks]>>}

InitRace ==
    /\ invites \in RaceInvites
    /\ game_sessions \in RaceSessions
    /\ game_results = <<>>
    /\ lobby_ready = {}
    /\ clock = 0
    /\ response = Answer(0, TRUE, 0)
    /\ requests = 0
    /\ threads = [t \in Workers |-> Waiting]
    /\ layout = NoLayout
    /\ players = 1
    /\ ActionIdle
    /\ BuildIdle
    /\ ScrambleIdle
    /\ TwinIdle
    /\ HeapIdle
    /\ EloIdle
    /\ RatingIdle
    /\ PairIdle
    /\ ServeIdle
    /\ pc = "racing"

\* lines 206-219: the request of user u arrives and its host is looked up
PlayLookup(t, u) ==
    /\ threads[t].pc = "waiting"
    /\ invites' = expire_old_invites(invites, clock)
    /\ threads' = [threads EXCEPT ![t] = [pc |-> "lookup_done", user |-> u,
                                          host_id |-> host_of(invites', u, "ranked", clock),
                                          session_id |-> 0]]
    /\ UNCHANGED <<game_sessions, game_results, lobby_ready, clock, response, requests,
                   otherVars>>

\* lines 306-310: the check for an active session of the host
PlayCheck(t) ==
    LET existing_rows == get_active_sessions_for_user(game_sessions, threads[t].host_id)
    IN /\ threads[t].pc = "lookup_done"
       /\ IF existing_rows /= {}
            THEN /\ threads' = [threads EXCEPT ![t].pc = "answered"]
                 /\ response' = Answer(302, TRUE, first_session(existing_rows))
            ELSE /\ threads' = [threads EXCEPT ![t].pc = "checked"]
                 /\ UNCHANGED response
       /\ UNCHANGED <<invites, game_sessions, game_results, lobby_ready, clock, requests,
                      otherVars>>

\* lines 312-365: the puzzle is picked and the session created
PlayCreate(t) ==
    LET exclude_ids == get_user_ranked_history_puzzle_ids(game_sessions, threads[t].user)
    IN /\ threads[t].pc = "checked"
       /\ \E puzzle \in get_random_puzzle_for_level_and_players_excluding(exclude_ids) :
             IF puzzle = 0
               THEN /\ threads' = [threads EXCEPT ![t].pc = "answered"]
                    /\ response' = Answer(200, TRUE, 0)
                    /\ UNCHANGED game_sessions
               ELSE /\ game_sessions' =
                          create_game_session(game_sessions, threads[t].host_id, puzzle,
                              get_party_for_inviter(invites, threads[t].host_id, "ranked", clock))
                    /\ threads' = [threads EXCEPT ![t].pc = "answered",
                                                  ![t].session_id = Len(game_sessions')]
                    /\ response' = Answer(200, TRUE, Len(game_sessions'))
       /\ UNCHANGED <<invites, game_results, lobby_ready, clock, requests, otherVars>>

NextRace ==
    \/ \E t \in Workers, u \in Users : PlayLookup(t, u)
    \/ \E t \in Workers : PlayCheck(t)
    \/ \E t \in Workers : PlayCreate(t)

SpecRace == InitRace /\ [][NextRace]_vars

(***************************************************************************)
(* Properties of the move operators, stated for Spec.  After an action    *)
(* (pc = "applied") before is the Layout the action was applied to, last   *)
(* is the action and layout is its result.                                 *)
(***************************************************************************)
Applied(types) == pc = "applied" /\ last.type \in types

\* the codes of a list of lists, in order
RECURSIVE Flatten(_)
Flatten(lists) ==
    IF lists = <<>> THEN <<>> ELSE Head(lists) \o Flatten(Tail(lists))

\* every card code of a Layout: grid cells, row reserves, column reserves
CodeList(L) == Flatten(L.rows) \o Flatten(L.row_reserves) \o Flatten(L.col_reserves)

\* the multiset of the elements of a list
RECURSIVE BagOfSeq(_)
BagOfSeq(xs) ==
    IF xs = <<>> THEN EmptyBag ELSE SetToBag({Head(xs)}) (+) BagOfSeq(Tail(xs))

CodeBag(L) == BagOfSeq(CodeList(L))

\* C1: applying an action with valid indices and then its inverse_action
\* restores the Layout exactly, cells and reserves included.
C1_MoveInvertibility == pc = "undone" => to_dict(layout) = to_dict(before)

C1_Witness ==
    /\ pc = "undone"
    /\ nsteps = 2
    /\ last.type = "col_down"
    /\ num_rows(layout) = 3
    /\ apply_action(before, last) /= before
    /\ layout /= origin

\* the kind inverse_action gives for each of the five kinds
InverseType ==
    [t \in ActionTypes |->
       CASE t = "swap" -> "swap"
         [] t = "row_right" -> "row_left"
         [] t = "row_left" -> "row_right"
         [] t = "col_down" -> "col_up"
         [] t = "col_up" -> "col_down"]

\* C25: inverse_action maps swap to swap, row_right to row_left and back,
\* col_down to col_up and back, returns the parameters of its argument
\* unchanged, and applied twice gives the action back; this for every action
\* with valid indices, and the action handed to it for an undo is one of
\* them afterwards.
C25_InverseInvolution ==
    /\ \A a \in ValidActions(layout) :
          /\ inverse_action(a).type = InverseType[a.type]
          /\ inverse_action(a).type \in ActionTypes
          /\ inverse_action(a).params = a.params
          /\ inverse_action(inverse_action(a)) = a
    /\ pc = "undone" => last \in ValidActions(layout)

\* a swap of two different columns applied and undone
C25_Witness ==
    /\ pc = "undone"
    /\ last.type = "swap"
    /\ last.params.i /= last.params.j
    /\ inverse_action(last) = last
    /\ inverse_action(ColAction("col_up", 4)) = ColAction("col_down", 4)
    /\ inverse_action(RowAction("row_left", 1)) = RowAction("row_right", 1)

\* C2: after any sequence of the five actions the multiset of card codes over
\* grid cells, row reserves and column reserves is the same as at the start.
C2_CardConservation == CodeBag(layout) = CodeBag(origin)

C2_Witness ==
    /\ nsteps = 2
    /\ pc = "applied"
    /\ last.type = "row_right"
    /\ layout.row_reserves /= origin.row_reserves
    /\ layout.col_reserves /= origin.col_reserves

\* C7: a swap on a row other than the opponent row exchanges the cells at
\* columns i and j of that row and of the opponent row and changes nothing
\* else.
C7_SwapExchanges ==
    (Applied({"swap"}) /\ last.params.row_index /= before.opponent_row_index) =>
        LET r == last.params.row_index + 1
            o == before.opponent_row_index + 1
            i == last.params.i + 1
            j == last.params.j + 1
        IN /\ layout.rows[r][i] = before.rows[r][j]
           /\ layout.rows[r][j] = before.rows[r][i]
           /\ layout.rows[o][i] = before.rows[o][j]
           /\ layout.rows[o][j] = before.rows[o][i]
           /\ num_rows(layout) = num_rows(before)
           /\ \A rr \in 1..num_rows(before) : \A k \in 1..num_cols :
                 (rr \notin {r, o} \/ k \notin {i, j}) =>
                     layout.rows[rr][k] = before.rows[rr][k]
           /\ layout.row_reserves = before.row_reserves
           /\ layout.col_reserves = before.col_reserves
           /\ layout.opponent_row_index = before.opponent_row_index

C7_Witness ==
    /\ Applied({"swap"})
    /\ last.params.row_index /= before.opponent_row_index
    /\ last.params.i /= last.params.j
    /\ num_rows(before) = 3
    /\ layout.rows[before.opponent_row_index + 1] /= before.rows[before.opponent_row_index + 1]

\* C8, as stated: row_right and row_left on a player row and col_down and
\* col_up on any column leave every cell of the opponent row unchanged.
C8_OnlySwapChangesOpponentRow ==
    (\/ Applied({"row_right", "row_left"})
        /\ last.params.row_index /= before.opponent_row_index
     \/ Applied({"col_down", "col_up"})) =>
        layout.rows[before.opponent_row_index + 1] = before.rows[before.opponent_row_index + 1]

\* C8, amended: row_right and row_left on a player row leave every cell of
\* the opponent row unchanged; col_down and col_up on column c give the
\* opponent row's cell in column c a different card (that of the row above,
\* resp. below, or the top, resp. bottom, card of the column reserve at the
\* edge of the grid) and leave its other four cells unchanged.
C8_ShiftsAndOpponentRow ==
    LET o == before.opponent_row_index + 1
    IN /\ (Applied({"row_right", "row_left"}) /\ last.params.row_index + 1 /= o) =>
             layout.rows[o] = before.rows[o]
       /\ Applied({"col_down", "col_up"}) =>
             LET c == last.params.col_index + 1
             IN /\ \A k \in 1..num_cols : k /= c => layout.rows[o][k] = before.rows[o][k]
                /\ layout.rows[o][c] /= before.rows[o][c]
                /\ last.type = "col_down" =>
                      layout.rows[o][c] = IF o = 1 THEN before.col_reserves[c][1]
                                          ELSE before.rows[o - 1][c]
                /\ last.type = "col_up" =>
                      layout.rows[o][c] = IF o = num_rows(before)
                                            THEN before.col_reserves[c][2]
                                            ELSE before.rows[o + 1][c]

C8_Witness ==
    /\ Applied({"col_down"})
    /\ num_rows(before) = 3
    /\ before.opponent_row_index = 1
    /\ layout.rows[2][last.params.col_index + 1] = before.rows[1][last.params.col_index + 1]
    /\ layout.rows[2] /= before.rows[2]

\* C9: for a row with cells [c0,c1,c2,c3,c4] and reserve [top,bottom],
\* row_right makes the cells [top,c0,c1,c2,c3] and the reserve [bottom,c4];
\* row_left makes the cells [c1,c2,c3,c4,bottom] and the reserve [c0,top].
C9_RowShifts ==
    Applied({"row_right", "row_left"}) =>
        LET r == last.params.row_index + 1
            c == before.rows[r]
            top == before.row_reserves[r][1]
            bottom == before.row_reserves[r][2]
        IN /\ last.type = "row_right" =>
                 /\ layout.rows[r] = <<top, c[1], c[2], c[3], c[4]>>
                 /\ layout.row_reserves[r] = <<bottom, c[5]>>
           /\ last.type = "row_left" =>
                 /\ layout.rows[r] = <<c[2], c[3], c[4], c[5], bottom>>
                 /\ layout.row_reserves[r] = <<c[1], top>>

C9_Witness ==
    /\ Applied({"row_left"})
    /\ nsteps = 2
    /\ before.row_reserves[last.params.row_index + 1]
          /= origin.row_reserves[last.params.row_index + 1]
    /\ layout.rows[last.params.row_index + 1][num_cols]
          = before.row_reserves[last.params.row_index + 1][2]

\* the number of rows, the lengths of the rows and of the reserves, and the
\* opponent row index of a Layout
ShapeOf(L) ==
    [num_rows |-> num_rows(L),
     row_lengths |-> [r \in 1..num_rows(L) |-> Len(L.rows[r])],
     row_reserve_sizes |-> [r \in 1..Len(L.row_reserves) |-> Len(L.row_reserves[r])],
     col_reserve_sizes |-> [c \in 1..Len(L.col_reserves) |-> Len(L.col_reserves[c])],
     opponent_row_index |-> L.opponent_row_index]

\* C27: row_right and row_left on row r change nothing but the cells of row r
\* and the reserve of row r; col_down and col_up on column c change nothing
\* but the cells of column c and the reserve of column c; none of the five
\* actions changes opponent_row_index, the number of rows, the length of a
\* row or the size of a reserve.
C27_ShiftFrame ==
    pc = "applied" =>
      /\ ShapeOf(layout) = ShapeOf(before)
      /\ last.type \in {"row_right", "row_left"} =>
           /\ \A r \in 1..num_rows(before) :
                 r /= last.params.row_index + 1 =>
                    /\ layout.rows[r] = before.rows[r]
                    /\ layout.row_reserves[r] = before.row_reserves[r]
           /\ layout.col_reserves = before.col_reserves
      /\ last.type \in {"col_down", "col_up"} =>
           /\ \A r \in 1..num_rows(before) : \A c \in 1..num_cols :
                 c /= last.params.col_index + 1 => layout.rows[r][c] = before.rows[r][c]
           /\ \A c \in 1..num_cols :
                 c /= last.params.col_index + 1 =>
                    layout.col_reserves[c] = before.col_reserves[c]
           /\ layout.row_reserves = before.row_reserves

\* a column shift after a row shift, three rows: the column and its reserve
\* changed, the shape did not
C27_Witness ==
    /\ Applied({"col_down"})
    /\ nsteps = 2
    /\ num_rows(layout) = 3
    /\ before /= origin
    /\ before.col_reserves = origin.col_reserves
    /\ layout.col_reserves[last.params.col_index + 1]
          /= before.col_reserves[last.params.col_index + 1]
    /\ layout.rows /= before.rows
    /\ ShapeOf(layout) = ShapeOf(origin)

\* C28: a swap whose row_index is the opponent row, and a swap with i = j,
\* leave the whole Layout as it was.
C28_SwapWithoutEffect ==
    (/\ Applied({"swap"})
     /\ \/ last.params.row_index = before.opponent_row_index
        \/ last.params.i = last.params.j) =>
       to_dict(layout) = to_dict(before)

\* a swap of two different columns addressed to the opponent row, after an
\* action that changed the Layout
C28_Witness ==
    /\ Applied({"swap"})
    /\ nsteps = 2
    /\ last.params.row_index = before.opponent_row_index
    /\ last.params.i /= last.params.j
    /\ before.rows[last.params.row_index + 1][last.params.i + 1]
          /= before.rows[last.params.row_index + 1][last.params.j + 1]
    /\ before /= origin
    /\ layout = before

\* C10: for a column with cells [x0,...,x(R-1)] from row 0 to row R-1 and
\* reserve [top,bottom], col_down makes the column [top,x0,...,x(R-2)] and
\* the reserve [bottom,x(R-1)]; col_up makes the column [x1,...,x(R-1),bottom]
\* and the reserve [x0,top]; all R rows take part, the opponent row included.
C10_ColumnShifts ==
    Applied({"col_down", "col_up"}) =>
        LET c == last.params.col_index + 1
            R == num_rows(before)
            x == [r \in 1..R |-> before.rows[r][c]]
            top == before.col_reserves[c][1]
            bottom == before.col_reserves[c][2]
            column == [r \in 1..R |-> layout.rows[r][c]]
        IN /\ num_rows(layout) = R
           /\ last.type = "col_down" =>
                 /\ column = <<top>> \o SubSeq(x, 1, R - 1)
                 /\ layout.col_reserves[c] = <<bottom, x[R]>>
           /\ last.type = "col_up" =>
                 /\ column = SubSeq(x, 2, R) \o <<bottom>>
                 /\ layout.col_reserves[c] = <<x[1], top>>

C10_Witness ==
    /\ Applied({"col_up"})
    /\ num_rows(before) = 3
    /\ before.opponent_row_index = 2
    /\ layout.rows[3][last.params.col_index + 1] = before.col_reserves[last.params.col_index + 1][2]
    /\ layout.rows[1][last.params.col_index + 1] = before.rows[2][last.params.col_index + 1]

(***************************************************************************)
(* Properties of build_solved_layout, stated for SpecBuild.  When the     *)
(* function has returned (pc = "returned"), layout and meta are the        *)
(* returned Layout and metadata and built holds the locals of the          *)
(* successful attempt as they were before the rows were renumbered.        *)
(***************************************************************************)
\* C5: every returned Layout and its metadata have opponent_row_index 0;
\* row 0 is the row that was built as the opponent row, and the player rows
\* follow in their original relative order, each with its row reserve.
C5_OpponentRowFirst ==
    pc = "returned" =>
        LET o == built.opponent_row_index + 1
            olds == SelectSeq([k \in 1..Len(built.rows) |-> k], LAMBDA r : r /= o)
        IN /\ layout.opponent_row_index = 0
           /\ meta.opponent_row_index = 0
           /\ Len(layout.rows) = Len(built.rows)
           /\ Len(layout.row_reserves) = Len(built.row_reserves)
           /\ layout.rows[1] = built.rows[o]
           /\ layout.row_reserves[1] = built.row_reserves[o]
           /\ SeqSet(layout.rows[1]) = SeqSet(cards_to_codes(built.opp_row_cards))
           /\ \A k \in 1..Len(olds) :
                 /\ layout.rows[k + 1] = built.rows[olds[k]]
                 /\ layout.row_reserves[k + 1] = built.row_reserves[olds[k]]

C5_Witness ==
    /\ pc = "returned"
    /\ players = 3
    /\ num_rows(layout) = 4
    /\ meta.suite_row_index /= None
    /\ meta.suite_row_index[1] > 0
    /\ layout.rows[1] = built.rows[built.opponent_row_index + 1]

\* C6: every Layout returned for p players (1 <= p <= 5) has p + 1 rows of 5
\* non-empty codes, a 2-card reserve without empty slot for every row and
\* for each of the 5 columns, its 7 * (p + 1) + 10 codes are pairwise
\* distinct cards of the standard deck, and the metadata's column_index is
\* in 0..4.
C6_ReturnedLayoutShape ==
    pc = "returned" =>
        /\ players \in 1..5
        /\ Len(layout.rows) = players + 1
        /\ \A r \in 1..Len(layout.rows) :
              /\ Len(layout.rows[r]) = 5
              /\ \A c \in 1..5 : layout.rows[r][c] /= EmptyCode
        /\ Len(layout.row_reserves) = players + 1
        /\ \A r \in 1..Len(layout.row_reserves) :
              /\ Len(layout.row_reserves[r]) = 2
              /\ \A k \in 1..2 : layout.row_reserves[r][k] /= EmptyCode
        /\ Len(layout.col_reserves) = 5
        /\ \A c \in 1..Len(layout.col_reserves) :
              /\ Len(layout.col_reserves[c]) = 2
              /\ \A k \in 1..2 : layout.col_reserves[c][k] /= EmptyCode
        /\ Len(CodeList(layout)) = 7 * (players + 1) + 10
        /\ Cardinality(SeqSet(CodeList(layout))) = 7 * (players + 1) + 10
        /\ SeqSet(CodeList(layout)) \subseteq SeqSet(cards_to_codes(standard_deck))
        /\ meta.column_index \in 0..4

C6_Witness ==
    /\ pc = "returned"
    /\ players = 5
    /\ SeqSet(CodeList(layout)) = SeqSet(cards_to_codes(standard_deck))
    /\ meta.column_index = 4

(***************************************************************************)
(* Properties of scramble_from_solved, stated for SpecScramble.           *)
(***************************************************************************)
\* C3: replaying the returned solution, in order, with apply_action on a
\* copy of the returned scrambled Layout yields a Layout whose to_dict
\* equals that of the solved Layout.
C3_Solvability == pc = "replayed" => to_dict(cur) = to_dict(solved)

C3_Witness ==
    /\ pc = "replayed"
    /\ steps = 2
    /\ replayed = 2
    /\ players = 2
    /\ actions_taken[1].type = "swap"
    /\ actions_taken[2].type = "col_down"
    /\ to_dict(layout) /= to_dict(solved)

\* C4, as stated: in the returned solution of a P-player puzzle every
\* row-type action (row_left, row_right, swap) at the 0-based position k
\* has row_index = 1 + (k mod P).
C4_TurnOrder ==
    solution_actions /= None =>
        \A k \in 1..Len(solution_actions[1]) :
            solution_actions[1][k].type \in {"row_left", "row_right", "swap"} =>
                solution_actions[1][k].params.row_index = 1 + ((k - 1) % players)

\* a returned solution in which a row-type action is out of the player cycle
C4_Witness ==
    /\ pc = "replay"
    /\ players = 2
    /\ steps = 1
    /\ solution_actions[1][1].type = "row_left"
    /\ solution_actions[1][1].params.row_index = 2

\* the Layout after the actions of a list, applied in order
RECURSIVE ApplyAll(_, _)
ApplyAll(L, acts) ==
    IF acts = <<>> THEN L ELSE ApplyAll(apply_action(L, Head(acts)), Tail(acts))

OppositeType(t) ==
    CASE t = "row_right" -> "row_left"
      [] t = "row_left" -> "row_right"
      [] t = "col_down" -> "col_up"
      [] t = "col_up" -> "col_down"
      [] t = "swap" -> "swap"

\* C12: the returned solution has exactly N = steps actions; its k-th action
\* (0-based) has the opposite type and the same parameters as the (N-1-k)-th
\* action applied during scrambling; for N = 0 the scrambled Layout equals
\* the solved Layout and the solution is empty.
C12_SolutionIsReversedInverses ==
    solution_actions /= None =>
        LET sol == solution_actions[1]
            N == steps
        IN /\ Len(sol) = N
           /\ Len(actions_taken) = N
           /\ to_dict(layout) = to_dict(ApplyAll(solved, actions_taken))
           /\ \A k \in 0..(N - 1) :
                 /\ sol[k + 1] = inverse_action(actions_taken[(N - 1 - k) + 1])
                 /\ sol[k + 1].type = OppositeType(actions_taken[(N - 1 - k) + 1].type)
                 /\ sol[k + 1].params = actions_taken[(N - 1 - k) + 1].params
           /\ N = 0 => (to_dict(layout) = to_dict(solved) /\ sol = <<>>)

C12_Witness ==
    /\ pc = "replay"
    /\ steps = 2
    /\ actions_taken[1].type = "row_right"
    /\ actions_taken[2].type = "swap"
    /\ solution_actions[1][1].type = "swap"
    /\ solution_actions[1][2] = RowAction("row_left", actions_taken[1].params.row_index)

\* the members of a list that satisfy a test, counted
CountOf(xs, Test(_)) == Len(SelectSeq(xs, Test))

\* C13, as stated: at every scramble step, whatever the draws, the candidate
\* list holds for every row other than the opponent row a row_left, a
\* row_right and exactly one swap with two distinct columns, and for every
\* column a col_up and a col_down: 3 * (R - 1) + 10 members.
C13_CandidateSet ==
    (pc = "scramble" /\ Len(actions_taken) < steps) =>
        \A d \in ActionDraws(layout) :
            LET choices == legal_choices(layout, d.ij)
                R == num_rows(layout)
            IN /\ Len(choices) = 3 * (R - 1) + 10
               /\ \A r \in 0..(R - 1) : r /= layout.opponent_row_index =>
                     /\ CountOf(choices, LAMBDA a : a = RowAction("row_left", r)) = 1
                     /\ CountOf(choices, LAMBDA a : a = RowAction("row_right", r)) = 1
                     /\ CountOf(choices, LAMBDA a : a.type = "swap"
                                                    /\ a.params.row_index = r
                                                    /\ a.params.i /= a.params.j) = 1
               /\ \A c \in Cols :
                     /\ CountOf(choices, LAMBDA a : a = ColAction("col_up", c)) = 1
                     /\ CountOf(choices, LAMBDA a : a = ColAction("col_down", c)) = 1

\* a scramble step whose draws for row 1 coincide, so that the row offers no swap
C13_Witness ==
    /\ pc = "scramble"
    /\ Len(actions_taken) < steps
    /\ players = 2
    /\ \E d \in ActionDraws(layout) :
          /\ d.ij[1][1] = d.ij[1][2]
          /\ d.ij[2][1] /= d.ij[2][2]
          /\ Len(legal_choices(layout, d.ij)) = 3 * 2 + 10 - 1
          /\ CountOf(legal_choices(layout, d.ij), LAMBDA a : a.type = "swap") = 1

\* a column action on one of the five columns, or a row action on a player row
\* of a Layout of R rows whose opponent row is row 0, a swap with two
\* different columns
ScramblerAction(a, R) ==
    \/ /\ a.type \in {"col_down", "col_up"}
       /\ DOMAIN a.params = {"col_index"}
       /\ a.params.col_index \in 0..4
    \/ /\ a.type \in {"row_left", "row_right"}
       /\ DOMAIN a.params = {"row_index"}
       /\ a.params.row_index \in 1..(R - 1)
    \/ /\ a.type = "swap"
       /\ DOMAIN a.params = {"row_index", "i", "j"}
       /\ a.params.row_index \in 1..(R - 1)
       /\ a.params.i \in 0..4
       /\ a.params.j \in 0..4
       /\ a.params.i /= a.params.j

\* C26: every action the scrambler has applied, and every action of the
\* solution it returns, is a column action with col_index in 0..4 or a
\* row_left, row_right or swap on a player row 1..R-1, never on the opponent
\* row 0; every swap has two different columns i and j in 0..4.
C26_ScramblerActions ==
    /\ layout.opponent_row_index = 0
    /\ \A k \in 1..Len(actions_taken) : ScramblerAction(actions_taken[k], players + 1)
    /\ solution_actions /= None =>
         \A k \in 1..Len(solution_actions[1]) :
            ScramblerAction(solution_actions[1][k], players + 1)

\* a solution of two actions returned for three rows: a swap and a column shift
C26_Witness ==
    /\ pc = "replayed"
    /\ players = 2
    /\ num_rows(layout) = 3
    /\ Len(solution_actions[1]) = 2
    /\ solution_actions[1][1].type = "swap"
    /\ solution_actions[1][1].params.row_index = 2
    /\ solution_actions[1][2].type = "col_up"
    /\ actions_taken[1].type = "col_down"

\* the cards in the cells of row r (0-based) of a Layout
RowCards(L, r) == {from_code(L.rows[r + 1][c]) : c \in 1..Len(L.rows[r + 1])}

\* the cards in the cells of the rows 1..R-1 of a Layout
PlayerCards(L) == UNION {RowCards(L, r) : r \in 1..(Len(L.rows) - 1)}

\* C15: row 0 of every returned Layout holds exactly the 5 lowest cards, in
\* (rank, suit) order, of the R * 5 cards dealt to the grid: each of its cards
\* is lower than every other grid card and than every card in rows 1..R-1.
C15_OpponentRowLowest ==
    pc = "returned" =>
        LET grid == SeqSet(built.grid_cards)
            row0 == RowCards(layout, 0)
        IN /\ Len(built.grid_cards) = 5 * Len(layout.rows)
           /\ Cardinality(row0) = 5
           /\ row0 \subseteq grid
           /\ PlayerCards(layout) = grid \ row0
           /\ \A a \in row0 : \A b \in grid \ row0 : KeyLess(a, b)
           /\ \A a \in row0 : \A b \in PlayerCards(layout) : KeyLess(a, b)

C15_Witness ==
    /\ pc = "returned"
    /\ players = 2
    /\ \E a \in RowCards(layout, 0) : \E b \in PlayerCards(layout) :
          a.rank = b.rank /\ Ord(a.suit) < Ord(b.suit)
    /\ \A a \in RowCards(layout, 0) : \A b \in PlayerCards(layout) : KeyLess(a, b)

\* the rank of the cell of row r (0-based) in the metadata's column
ColumnRank(r) == from_code(layout.rows[r + 1][meta.column_index + 1]).rank

\* C16: in every returned Layout the column at the metadata's column_index
\* holds R consecutive ranks, ascending by one from row 0 to row R-1, and the
\* run contains the highest rank of the opponent row.
C16_ColumnRun ==
    pc = "returned" =>
        LET R == Len(layout.rows)
        IN /\ meta.column_index \in 0..4
           /\ \A r \in 1..(R - 1) : ColumnRank(r) = ColumnRank(r - 1) + 1
           /\ \E r \in 0..(R - 1) :
                 /\ \E a \in RowCards(layout, 0) : a.rank = ColumnRank(r)
                 /\ \A a \in RowCards(layout, 0) : a.rank <= ColumnRank(r)

C16_Witness ==
    /\ pc = "returned"
    /\ players = 3
    /\ meta.column_index = 4
    /\ ColumnRank(3) = ColumnRank(0) + 3
    /\ \A a \in RowCards(layout, 0) : a.rank <= ColumnRank(0)

\* the ranks in the column at the metadata's column_index
ColumnRanks == {ColumnRank(r) : r \in 0..(Len(layout.rows) - 1)}

\* C29: in every returned Layout the ranks of the R cells of the column at
\* column_index are R different consecutive integers within 2..14, and the
\* cell of that column in row 0 carries the highest rank of row 0.
C29_ColumnRanks ==
    pc = "returned" =>
        LET R == Len(layout.rows)
        IN /\ Cardinality(ColumnRanks) = R
           /\ \E m \in 2..(14 - R + 1) : ColumnRanks = m..(m + R - 1)
           /\ \A a \in RowCards(layout, 0) : a.rank <= ColumnRank(0)

\* two rows above the opponent row, the column in the middle of the grid and
\* its row-0 card the only one of its rank in row 0
C29_Witness ==
    /\ pc = "returned"
    /\ players = 2
    /\ meta.column_index = 2
    /\ ColumnRanks = ColumnRank(0)..(ColumnRank(0) + 2)
    /\ ColumnRank(0) + 2 <= 14
    /\ \A c \in 1..num_cols :
          c /= 3 => from_code(layout.rows[1][c]).rank < ColumnRank(0)

\* all cards of a set have one suit
Monosuit(cards) == \A a \in cards : \A b \in cards : a.suit = b.suit

\* C17: in every returned Layout the metadata's suite_row_index is a row
\* index, never None, and the 5 cells of that row have one suit; it is 0
\* exactly when the opponent row has one suit, and otherwise names a player
\* row that holds 5 cards of one suit out of the grid cards that are not the
\* opponent row's.
C17_SuitRow ==
    pc = "returned" =>
        /\ meta.suite_row_index /= None
        /\ meta.suite_row_index[1] \in 0..(Len(layout.rows) - 1)
        /\ Monosuit(RowCards(layout, meta.suite_row_index[1]))
        /\ (meta.suite_row_index[1] = 0) <=> Monosuit(RowCards(layout, 0))
        /\ meta.suite_row_index[1] /= 0 =>
              /\ Cardinality(RowCards(layout, meta.suite_row_index[1])) = 5
              /\ RowCards(layout, meta.suite_row_index[1])
                    \subseteq SeqSet(built.grid_cards) \ RowCards(layout, 0)

C17_Witness ==
    /\ pc = "returned"
    /\ meta.suite_row_index /= None
    /\ meta.suite_row_index[1] > 0
    /\ ~Monosuit(RowCards(layout, 0))
    /\ Monosuit(RowCards(layout, meta.suite_row_index[1]))
    /\ \E r \in 1..(Len(layout.rows) - 1) : ~Monosuit(RowCards(layout, r))

(***************************************************************************)
(* Termination of build_solved_layout, stated for SpecBuildFair.           *)
(***************************************************************************)
\* the call is over: it has returned, or raised one of its two errors
BuildOver == pc \in {"returned", "raised", "failed"}

\* no attempt beyond the budget; a running call has a next pass to make or
\* its budget is used up; no Layout while the call runs or after it raised;
\* a returned Layout without an empty cell or reserve slot
BuildSafe ==
    /\ attempts <= max_attempts
    /\ pc = "build" => (attempts = max_attempts \/ Draws(players) /= {})
    /\ pc \in {"build", "failed", "raised"} => (layout = NoLayout /\ meta = NoMeta)
    /\ pc = "failed" => (attempts = max_attempts /\ built.outcome /= "built")
    /\ pc = "returned" =>
          /\ built.outcome = "built"
          /\ \A r \in 1..Len(layout.rows) : \A c \in 1..5 : layout.rows[r][c] /= EmptyCode
          /\ \A r \in 1..Len(layout.row_reserves) :
                \A k \in 1..2 : layout.row_reserves[r][k] /= EmptyCode
          /\ \A c \in 1..5 : \A k \in 1..2 : layout.col_reserves[c][k] /= EmptyCode

\* C18: build_solved_layout always terminates: it makes at most max_attempts
\* attempts; while it runs no Layout is visible, a discarded attempt leaves
\* none, a returned Layout is complete, and once the budget is used up the
\* call raises its failure without a Layout; the call is over after finitely
\* many steps and stays over.
C18_Terminates == []BuildSafe /\ <>BuildOver /\ [](BuildOver => []BuildOver)

C18_Witness ==
    /\ pc = "failed"
    /\ max_attempts = 2
    /\ attempts = 2
    /\ built.outcome = "continue"
    /\ layout = NoLayout
(***************************************************************************)
(* Properties of actions with arbitrary indices, stated for SpecIndexed.   *)
(***************************************************************************)
\* an index of the action lies outside 0..R-1 (rows) or 0..4 (columns)
OutOfRange(L, a) ==
    CASE a.type = "swap" ->
           \/ a.params.row_index \notin 0..(num_rows(L) - 1)
           \/ a.params.i \notin Cols
           \/ a.params.j \notin Cols
      [] a.type \in {"row_right", "row_left"} ->
           a.params.row_index \notin 0..(num_rows(L) - 1)
      [] a.type \in {"col_down", "col_up"} -> a.params.col_index \notin Cols

\* C21: an action with a row index outside 0..R-1 or a column index outside
\* 0..4, negative indices included, fails and leaves the Layout as it was.
C21_OutOfRangeFailsFast ==
    (pc \in {"applied", "raised"} /\ OutOfRange(before, last)) =>
        (pc = "raised" /\ layout = before)

\* a negative row index is accepted and the last row is shifted
C21_Witness ==
    /\ pc = "applied"
    /\ last = RowAction("row_right", -1)
    /\ OutOfRange(before, last)
    /\ layout /= before
    /\ layout = shift_row_right(before, num_rows(before) - 1)

(***************************************************************************)
(* Properties of scramble_from_solved on Layout objects, stated for        *)
(* SpecAlias.                                                              *)
(***************************************************************************)
\* C14: scramble_from_solved works on a clone: the solved Layout passed in
\* keeps its cells, reserves and opponent_row_index while and after it runs
\* and under later actions on the returned scrambled Layout, and the two
\* Layouts share no row or reserve list.
C14_SolvedUntouched ==
    /\ to_dict(deref(heap, solved_obj)) = to_dict(solved)
    /\ scrambled_obj /= None =>
          lists_of(heap, solved_obj) \cap lists_of(heap, scrambled_obj[1]) = {}

C14_Witness ==
    /\ pc = "returned"
    /\ steps = 2
    /\ nsteps = 2
    /\ actions_taken[1].type = "swap"
    /\ actions_taken[2].type \in {"row_right", "row_left"}
    /\ last.type = "col_down"
    /\ deref(heap, scrambled_obj[1]).rows /= solved.rows
    /\ deref(heap, scrambled_obj[1]).row_reserves /= solved.row_reserves
    /\ deref(heap, scrambled_obj[1]).col_reserves /= solved.col_reserves
    /\ to_dict(deref(heap, solved_obj)) = to_dict(solved)

(***************************************************************************)
(* Properties of select_ranked_level, stated for SpecLevel.  After a       *)
(* selection (pc = "selected") level_choice holds the returned level for   *)
(* the history ranked_rows, the rating elo_value and the config diff_cfg.  *)
(***************************************************************************)
\* the level of the most recent game of the history
LastLevel == ranked_rows[Len(ranked_rows)].level

\* the distance of two levels
Dist(a, b) == IF a >= b THEN a - b ELSE b - a

\* C19 as stated: for every config, history and rating select_ranked_level
\* returns an integer level L with min_level <= L <= max_level and never
\* fails.
C19_LevelInRange ==
    /\ pc /= "raised"
    /\ pc = "selected" =>
          /\ level_choice /= None
          /\ level_choice[1] \in Int
          /\ diff_cfg.min_level <= level_choice[1]
          /\ level_choice[1] <= diff_cfg.max_level

\* C19, amended: select_ranked_level never fails and returns an integer; for
\* every config with min_level <= max_level the level is within
\* min_level..max_level, and for a config with min_level > max_level it is
\* min_level.
C19_LevelInRangeOfOrderedConfig ==
    /\ pc /= "raised"
    /\ pc = "selected" =>
          /\ level_choice /= None
          /\ level_choice[1] \in Int
          /\ diff_cfg.min_level <= diff_cfg.max_level =>
                /\ diff_cfg.min_level <= level_choice[1]
                /\ level_choice[1] <= diff_cfg.max_level
          /\ diff_cfg.min_level > diff_cfg.max_level => level_choice[1] = diff_cfg.min_level

C19_Witness ==
    /\ pc = "selected"
    /\ diff_cfg.min_level <= diff_cfg.max_level
    /\ ranked_rows /= <<>>
    /\ target_of(ranked_rows, elo_value, diff_cfg)[1] > diff_cfg.max_level
    /\ smooth(ranked_rows, target_of(ranked_rows, elo_value, diff_cfg)[1], diff_cfg)
          > diff_cfg.max_level
    /\ level_choice[1] = diff_cfg.max_level

\* C20 as stated: for every config and non-empty history the returned level
\* differs from the level of the most recent game by at most
\* clamp_delta_per_game.
C20_DeltaClamped ==
    (pc = "selected" /\ ranked_rows /= <<>>) =>
        Dist(level_choice[1], LastLevel) <= diff_cfg.clamp_delta_per_game

\* C20, amended: for a non-empty history whose most recent level is within
\* min_level..max_level, and clamp_delta_per_game >= 0, the returned level
\* differs from that level by at most clamp_delta_per_game; in every case it
\* is the smoothed level clamped to the config's range.
C20_DeltaClampedWithinRange ==
    (pc = "selected" /\ ranked_rows /= <<>>) =>
        /\ (/\ diff_cfg.clamp_delta_per_game >= 0
            /\ diff_cfg.min_level <= LastLevel
            /\ LastLevel <= diff_cfg.max_level)
              => Dist(level_choice[1], LastLevel) <= diff_cfg.clamp_delta_per_game
        /\ \E t \in (LastLevel - diff_cfg.clamp_delta_per_game)
                      ..(LastLevel + diff_cfg.clamp_delta_per_game) :
              level_choice[1] = clamp_level(t, diff_cfg)

C20_Witness ==
    /\ pc = "selected"
    /\ ranked_rows /= <<>>
    /\ diff_cfg.min_level <= LastLevel
    /\ LastLevel <= diff_cfg.max_level
    /\ Dist(target_of(ranked_rows, elo_value, diff_cfg)[1], LastLevel)
          > diff_cfg.clamp_delta_per_game
    /\ Dist(level_choice[1], LastLevel) = diff_cfg.clamp_delta_per_game
    /\ diff_cfg.clamp_delta_per_game > 0

(***************************************************************************)
(* Properties of _normalize_layout_and_actions, stated for SpecServe.  In  *)
(* a state with pc = "served", stored is the input and served the result;  *)
(* with pc = "served_again", stored is the first result and served the     *)
(* result of the call on it.                                               *)
(***************************************************************************)
\* the old place (1-based) of the row at place k >= 2 of the returned Layout,
\* for an opponent row at index p (0-based)
OldPlace(k, p) == IF k - 1 <= p THEN k - 1 ELSE k

\* C30: the returned layout has the input's opponent row as row 0, then the
\* other rows in their original order, the row reserves moved with their
\* rows, and opponent_row_index 0; for an input whose opponent_row_index is
\* 0 the rows, the reserves and the actions with their row indices come back
\* unchanged; and the function applied to its own result returns that result.
C30_NormalizedOrder ==
    /\ pc = "served" =>
         LET L == stored.start_layout_json[1]
             p == stored.opponent_row_index
             N == served[1].layout[1]
         IN /\ served[1].layout /= None
            /\ N.opponent_row_index = 0
            /\ served[1].opponent_row_index = 0
            /\ Len(N.rows) = Len(L.rows)
            /\ Len(N.row_reserves) = Len(L.row_reserves)
            /\ N.rows[1] = L.rows[p + 1]
            /\ N.row_reserves[1] = L.row_reserves[p + 1]
            /\ \A k \in 2..Len(L.rows) :
                  /\ N.rows[k] = L.rows[OldPlace(k, p)]
                  /\ N.row_reserves[k] = L.row_reserves[OldPlace(k, p)]
            /\ N.col_reserves = L.col_reserves
            /\ p = 0 =>
                  /\ N.rows = L.rows
                  /\ N.row_reserves = L.row_reserves
                  /\ served[1].actions = stored.actions_json[1]
    /\ pc = "served_again" =>
         /\ served[1].layout = stored.start_layout_json
         /\ served[1].actions = stored.actions_json[1]
         /\ served[1].opponent_row_index = stored.opponent_row_index

\* three rows with the opponent row in the middle, served with two actions and
\* served again
C30_Witness ==
    /\ pc = "served_again"
    /\ Len(served[1].layout[1].rows) = 3
    /\ served[1].layout[1].rows[1] = DealtLayout(3, 1).rows[2]
    /\ served[1].layout[1].rows[2] = DealtLayout(3, 1).rows[1]
    /\ served[1].layout[1].row_reserves[1] = DealtLayout(3, 1).row_reserves[2]
    /\ Len(served[1].actions) = 2
    /\ served[1].actions[1] = RowAction("row_left", 1)
    /\ served[1].actions[2].type = "swap"

\* the stored layout after its stored actions, then normalised
ReplayedThenNormalized ==
    normalize_layout_and_actions(
        json_dumps(ApplyAll(stored.start_layout_json[1], stored.actions_json[1])),
        stored.actions_json, stored.opponent_row_index).layout[1]

LastGames(rows, w) == SubSeq(rows, Len(rows) - w + 1, Len(rows))

\* the two histories are at least window_games >= 1 long and agree on their
\* last window_games games
SameWindow ==
    /\ diff_cfg.window_games >= 1
    /\ Len(ranked_rows) >= diff_cfg.window_games
    /\ Len(other_rows) >= diff_cfg.window_games
    /\ LastGames(ranked_rows, diff_cfg.window_games)
         = LastGames(other_rows, diff_cfg.window_games)

\* C23: two histories that agree on their last window_games >= 1 games and
\* are both at least that long get the same level from select_ranked_level
\* for the same rating and config; for an empty history the win rate is 1/2
\* and the level is the clamped target level, without smoothing.
C23_WindowOnly ==
    pc = "selected" =>
      /\ SameWindow => level_choice = other_choice
      /\ ranked_rows = <<>> =>
           /\ win_rate(tail_of(ranked_rows, diff_cfg)) = [num |-> 1, den |-> 2]
           /\ level_choice
                = Some(clamp_level(blend(wr_level([num |-> 1, den |-> 2], diff_cfg),
                                         elo_value, diff_cfg)[1], diff_cfg))

\* a lost game before the window of one won game, against the won game alone
C23_Witness ==
    /\ pc = "selected"
    /\ SameWindow
    /\ diff_cfg.window_games = 1
    /\ Len(ranked_rows) = 2
    /\ Len(other_rows) = 1
    /\ ranked_rows[1].solved = 0
    /\ ranked_rows[2].solved = 1
    /\ level_choice = other_choice
    /\ level_choice /= None

(***************************************************************************)
(* Properties of compute_user_elo, stated for SpecRating.  While the fold  *)
(* runs (pc = "fold") rating is the rating after the first folded games of *)
(* ranked_rows; pc = "raised" when a pass of the loop raised.               *)
(***************************************************************************)
\* C22: compute_user_elo returns a number whatever the timestamps of the
\* history are: no timestamp makes the fold raise, and a game whose timestamp
\* gives no age has weight 1.0.
C22_AnyTimestampFolds ==
    /\ (pc = "raised" /\ folded > 0) =>
          game_weight(ranked_rows[folded].created_at, elo_cfg) /= None
    /\ \A ts \in Timestamps :
          /\ game_weight(ts, elo_cfg) /= None
          /\ ts.kind /= "naive" => game_weight(ts, elo_cfg) = Some(Milli)

\* a game stored with a UTC offset ends the fold with the TypeError
C22_Witness ==
    /\ pc = "raised"
    /\ folded = 2
    /\ ranked_rows[1].created_at.kind = "malformed"
    /\ ranked_rows[2].created_at.kind = "aware"
    /\ ranked_rows[2].level = 1
    /\ game_weight(ranked_rows[2].created_at, elo_cfg) = None

\* C24: with a non-negative k_factor every won game that is folded leaves the
\* rating at or above its value before, and every lost game at or below it;
\* so a history of wins never lets the rating fall and one of losses never
\* lets it rise.
C24_RatingMonotone ==
    [][(pc = "fold" /\ pc' = "fold" /\ folded' = folded + 1 /\ elo_cfg.k_factor >= 0) =>
          /\ ranked_rows[folded + 1].solved = 1 => rating' >= rating
          /\ ranked_rows[folded + 1].solved /= 1 => rating' <= rating]_vars

\* two wins at level 10 folded, each of them raising the rating
C24_Witness ==
    /\ pc = "returned"
    /\ folded = 2
    /\ elo_cfg.k_factor > 0
    /\ \A k \in 1..2 : ranked_rows[k].solved = 1 /\ ranked_rows[k].level = 10
    /\ LET r1 == fold_game(elo_cfg.initial_rating * Milli, ranked_rows[1], elo_cfg)[1]
       IN /\ r1 > elo_cfg.initial_rating * Milli
          /\ elo_value > r1

(***************************************************************************)
(* Properties of two runs on the same draws, stated for SpecTwin.          *)
(***************************************************************************)
TwinEnded == first /= None /\ pc \in {"returned", "failed", "raised"}

hosted_active(h) ==
    {k \in 1..Len(game_sessions) :
        game_sessions[k].status = "active" /\ game_sessions[k].inviter_id = h}

\* C32: after any sequence of requests no host has more than one game session
\* with status 'active'.
C32_SingleActiveSession == \A h \in Users : Cardinality(hosted_active(h)) <= 1

\* C32, the case it is about: a host has an active session and one completed
\* before it
C32_Witness ==
    \E h \in Users : \E k \in hosted_active(h) : \E j \in 1..(k - 1) :
        game_sessions[j].inviter_id = h /\ game_sessions[j].status = "completed"


\* a member of an active session who is not its inviter
guest_of_active(u, sid) ==
    /\ sid \in 1..Len(game_sessions)
    /\ game_sessions[sid].status = "active"
    /\ u \in game_sessions[sid].members
    /\ u /= game_sessions[sid].inviter_id

\* a give-up request of user u for session sid, through any of the three routes
give_up_request(u, sid) ==
    \/ \E route \in GiveUpRoutes : play_give_up(route, u, sid)
    \/ ranked_give_up(u, sid)

\* C34: a give-up request from a member who is not the inviter leaves the
\* session 'active' and records no loss, through /play/give_up, /quick/give_up
\* and /ranked/give_up.
C34_OnlyHostFinalizes ==
    [][\A u \in Users, sid \in 1..MaxSessions :
          (guest_of_active(u, sid) /\ give_up_request(u, sid))
             => (game_sessions'[sid].status = "active" /\ game_results' = game_results)]_vars

\* C34, the case it is about: a session with a guest has been given up
C34_Witness ==
    \E sid \in 1..Len(game_sessions) :
        /\ game_sessions[sid].status = "completed"
        /\ game_sessions[sid].members /= {game_sessions[sid].inviter_id}
        /\ \E k \in 1..Len(game_results) : game_results[k].session_id = sid


\* user u is the host of a lobby that can start in the mode: every member of
\* the party is ready (or u is alone), u has no active session, and a puzzle
\* is left for u
can_start(u, mode) ==
    LET inv == expire_old_invites(invites, clock)
    IN /\ host_of(inv, u, mode, clock) = u
       /\ all_ready(inv, lobby_ready, u, mode, clock)
       /\ get_active_sessions_for_user(game_sessions, u) = {}
       /\ Puzzles \ get_user_ranked_history_puzzle_ids(game_sessions, u) /= {}

\* the step added an active session of host u with the party as members
session_started(u, mode) ==
    /\ Len(game_sessions') = Len(game_sessions) + 1
    /\ game_sessions'[Len(game_sessions')].inviter_id = u
    /\ game_sessions'[Len(game_sessions')].status = "active"
    /\ game_sessions'[Len(game_sessions')].members =
          {u} \cup get_party_for_inviter(expire_old_invites(invites, clock), u, mode, clock)

\* C35: when the host calls /api/lobby/start with every party member ready (or
\* alone), without an active session and with a puzzle available, a new game
\* session with the party as members is created and the response is ok with a
\* redirect to that session.
C35_StartCreatesSession ==
    [][\A u \in Users, mode \in Modes :
          (can_start(u, mode) /\ api_lobby_start(u, mode))
             => /\ session_started(u, mode)
                /\ response'.ok
                /\ response'.session_id = Len(game_sessions')]_vars

\* C35, the case it is about: a start request has ended with status 500
C35_Witness == response.code = 500


lifecycle_step(old, new) ==
    \/ new = old
    \/ old = "pending" /\ new \in {"accepted", "expired"}
    \/ old = "accepted" /\ new = "cancelled"

\* invite k can be accepted by user u now: it is u's, pending and not expired
acceptable(u, k) ==
    /\ k \in 1..Len(invites)
    /\ invites[k].invitee_id = u
    /\ invites[k].status = "pending"
    /\ invites[k].expires_at > clock

\* C37: an invite is created 'pending'; its status only goes from pending to
\* accepted or expired and from accepted to cancelled, so an expired or
\* cancelled invite never changes and no invite is accepted twice; it becomes
\* accepted only through accept_invite called by its own invitee while it is
\* pending and not yet expired, and every other call returns False.
C37_InviteLifecycle ==
    [][/\ Len(invites') >= Len(invites)
       /\ \A k \in 1..Len(invites') :
             IF k > Len(invites) THEN invites'[k].status = "pending"
             ELSE /\ lifecycle_step(invites[k].status, invites'[k].status)
                  /\ (invites[k].status /= "accepted" /\ invites'[k].status = "accepted")
                        => (acceptable(invites[k].invitee_id, k)
                            /\ api_invites_accept(invites[k].invitee_id, k))
       /\ \A u \in Users, k \in 1..MaxInvites :
             api_invites_accept(u, k) => (response'.ok <=> acceptable(u, k))]_vars

\* C37, the case it is about: an invite went from pending to accepted and on to
\* cancelled
C37_Witness == \E k \in 1..Len(invites) : invites[k].status = "cancelled"


(***************************************************************************)
(* Properties of the result rows, stated for SpecDb.                       *)
(***************************************************************************)
\* the game_results rows of a session and a user
session_rows(results, sid, uid) ==
    {k \in 1..Len(results) : results[k].session_id = sid /\ results[k].user_id = uid}

\* after the call every member of the session, host included, has exactly one
\* row of the session, with the flag and the session's puzzle, and nobody else
\* has one
rows_written(results, sid, solved_flag) ==
    \A uid \in Users :
       IF uid \in game_sessions[sid].members \cup {game_sessions[sid].inviter_id}
         THEN /\ Cardinality(session_rows(results, sid, uid)) = 1
              /\ \A k \in session_rows(results, sid, uid) :
                    /\ results[k].solved = (IF solved_flag THEN 1 ELSE 0)
                    /\ results[k].puzzle_id = game_sessions[sid].puzzle_id
         ELSE session_rows(results, sid, uid) = {}

\* C36: update_session_result(session, solved) leaves exactly one game_results
\* row of the session per session member, host included, carrying the solved
\* flag and the session's puzzle; a second call updates those rows and adds
\* none; there is at most one row per (session_id, user_id).
C36_OneRowPerMember ==
    /\ [](\A sid \in 1..MaxSessions, uid \in Users :
             Cardinality(session_rows(game_results, sid, uid)) <= 1)
    /\ [][\A sid \in 1..Len(game_sessions), solved_flag \in BOOLEAN :
             UpdateSessionResult(sid, solved_flag)
                => /\ rows_written(game_results', sid, solved_flag)
                   /\ rows_written(game_results, sid, ~solved_flag)
                         => Len(game_results') = Len(game_results)]_vars

\* C36, the case it is about: the rows of a session of two members have been
\* written with solved = 1, next to a row without session
C36_Witness ==
    \E sid \in 1..Len(game_sessions) :
        /\ game_sessions[sid].members = Users
        /\ rows_written(game_results, sid, TRUE)
        /\ \E k \in 1..Len(game_results) : game_results[k].session_id = 0


(***************************************************************************)
(* Properties of concurrent requests, stated for SpecRace.                 *)
(***************************************************************************)
\* the requests of host h that created a session
created_for(h) == {t \in Workers : threads[t].host_id = h /\ threads[t].session_id /= 0}

\* C33: of two /play?go=1 requests of the same host handled concurrently at
\* most one creates a game session.
C33_AtMostOneCreated == \A h \in Users : Cardinality(created_for(h)) <= 1

\* C33, the case it is about: both requests of one host have been answered and
\* one of them created a session
C33_Witness ==
    \E h \in Users :
        /\ \A t \in Workers : threads[t].pc = "answered" /\ threads[t].host_id = h
        /\ created_for(h) /= {}

=============================================================================
